---- MODULE Spec2Model ----
(***************************************************************************)
(* A model of the macrofx-unified execution pipeline (srdjan/fix):          *)
(*   - bracket            packages/core/bracket.ts                          *)
(*   - the policy weaver  packages/core/weave.ts                            *)
(*   - the executor       packages/core/executor.ts                         *)
(*   - idempotencyMacro   the std macros (setMacroResult version)           *)
(* Each subsystem has its own specification; the variables of the other     *)
(* subsystems stay at their initial value under it.                         *)
(***************************************************************************)
EXTENDS Integers, Sequences, FiniteSets, TLC

VARIABLES
  br,       \* bracket(): one record per bracket call in flight
  now,      \* Date.now() / the timer clock, in ms
  circ,     \* CircuitState.openUntil of the shared circuit state
  cfg,      \* the policies of meta (retry, timeout, circuit) and caps.log
  call,     \* one record per logical call of a woven method
  inv,      \* the invocations of the underlying (unwrapped) function
  ticks,    \* how many times the clock has advanced
  ex,       \* runStep(): one record per execution
  kv,       \* the stores (Map) of the KV ports that env.makeKv has made
  eng,      \* the engine: its macro list, its env and its validate option
  pool,     \* makePool(): its closure state, its callers and its instances
  hc        \* the execution contexts and their memo and span stores

vars == <<br, now, circ, cfg, call, inv, ticks, ex, kv, eng, pool, hc>>

----------------------------------------------------------------------------
(* Values a promise can settle with.                                        *)

Values == {"v1", "v2"}
Errors == {"e1", "e2"}

Pending == [kind |-> "pending", val |-> "none"]
Resolved(v) == [kind |-> "resolved", val |-> v]
Rejected(e) == [kind |-> "rejected", val |-> e]

----------------------------------------------------------------------------
(* bracket(acquire, use, finalizer?)                                        *)

NBrackets == 2
Brackets == 1..NBrackets

BracketIdle ==
  [pc |-> "idle", hasFinalizer |-> FALSE, useRes |-> Pending,
   outcome |-> Pending, released |-> 0, calls |-> <<>>, cleanup |-> <<>>]

\* the finally block, entered once use has settled: the finalizer, when one
\* was supplied, is awaited first
AfterUse(hasFinalizer) == IF hasFinalizer THEN "finalizer" ELSE "release"

\* `await finalizer(value); await release()` share one try block: a rejection
\* of finalizer is caught by the empty catch, which skips release
AfterFinalizer(ok) == IF ok THEN "release" ELSE "done"

\* some step of the cleanup rejected
CleanupFailed(cleanup) == \E k \in 1..Len(cleanup) : ~cleanup[k][2]

\* a finally block whose errors are not caught: they replace use's outcome
BracketOutcome_Unswallowed(useRes, cleanup) ==
  IF CleanupFailed(cleanup) THEN Rejected("cleanup") ELSE useRes

\* `return await use(value)` with the inner `catch { }` around the cleanup:
\* bracket settles as use did
BracketOutcome(useRes, cleanup) == useRes

\* entering a step of the finally block invokes the function of that step
EnterFinally(b, step) ==
  [b EXCEPT !.pc = step,
            !.calls = IF step = "done" THEN @ ELSE Append(@, step),
            !.released = IF step = "release" THEN @ + 1 ELSE @,
            !.outcome = IF step = "done"
                        THEN BracketOutcome(b.useRes, b.cleanup) ELSE @]

\* bracket is called: acquire() is invoked and awaited
BracketCall(i, fin) ==
  /\ br[i].pc = "idle"
  /\ br' = [br EXCEPT ![i] = [@ EXCEPT !.pc = "acquire", !.hasFinalizer = fin,
                                         !.calls = <<"acquire">>]]
  /\ UNCHANGED <<hc, pool, now, circ, cfg, call, inv, ticks, ex, kv, eng>>

\* acquire settles: use(value) is invoked, or bracket rejects
AcquireSettle(i, res) ==
  /\ br[i].pc = "acquire"
  /\ br' = [br EXCEPT ![i] =
        IF res.kind = "resolved"
        THEN [@ EXCEPT !.pc = "use", !.calls = Append(@, "use")]
        ELSE [@ EXCEPT !.pc = "done", !.outcome = res]]
  /\ UNCHANGED <<hc, pool, now, circ, cfg, call, inv, ticks, ex, kv, eng>>

\* use settles: its outcome is kept and the finally block starts
UseSettle(i, res) ==
  /\ br[i].pc = "use"
  /\ br' = [br EXCEPT ![i] =
        EnterFinally([@ EXCEPT !.useRes = res], AfterUse(br[i].hasFinalizer))]
  /\ UNCHANGED <<hc, pool, now, circ, cfg, call, inv, ticks, ex, kv, eng>>

\* finalizer settles
FinalizerSettle(i, ok) ==
  /\ br[i].pc = "finalizer"
  /\ br' = [br EXCEPT ![i] =
        EnterFinally([@ EXCEPT !.cleanup = Append(@, <<"finalizer", ok>>)],
                     AfterFinalizer(ok))]
  /\ UNCHANGED <<hc, pool, now, circ, cfg, call, inv, ticks, ex, kv, eng>>

\* release settles (a rejection is swallowed): bracket settles as use did
ReleaseSettle(i, ok) ==
  /\ br[i].pc = "release"
  /\ br' = [br EXCEPT ![i] =
        EnterFinally([@ EXCEPT !.cleanup = Append(@, <<"release", ok>>)], "done")]
  /\ UNCHANGED <<hc, pool, now, circ, cfg, call, inv, ticks, ex, kv, eng>>

Outcomes == {Resolved(v) : v \in Values} \cup {Rejected(e) : e \in Errors}

NextBracket ==
  \E i \in Brackets :
    \/ \E fin \in BOOLEAN : BracketCall(i, fin)
    \/ \E res \in Outcomes : AcquireSettle(i, res)
    \/ \E res \in Outcomes : UseSettle(i, res)
    \/ \E ok \in BOOLEAN : FinalizerSettle(i, ok)
    \/ \E ok \in BOOLEAN : ReleaseSettle(i, ok)

----------------------------------------------------------------------------
(* The KV port of the standard environment (stdEnv.makeKv).  Every call of   *)
(* makeKv makes a port over a Map of its own; kv is the sequence of these   *)
(* Maps, in the order in which they were made.                              *)

KvKeys == {"idem:", "idem:k1", "idem:k2"}

\* how many times del is called on one key
NDels == 1

\* a record of the store; exp = 0 stands for `exp: undefined`; dels counts
\* the del calls made on the key
NoRecord == [present |-> FALSE, value |-> "none", exp |-> 0, dels |-> 0]

\* `const store = new Map()`
EmptyKv == [k \in KvKeys |-> NoRecord]

\* no port made yet
NoStores == <<>>

\* the record is there and has expired: `record.exp && record.exp < Date.now()`
KvExpired(store, k, t) ==
  store[k].present /\ store[k].exp # 0 /\ store[k].exp < t

\* get: null when there is no record or the record has expired
KvGet(store, k, t) ==
  IF ~store[k].present THEN "null"
  ELSE IF KvExpired(store, k, t) THEN "null"
  ELSE store[k].value

\* get: `store.delete(keyFor(key))` when the record it found has expired
KvAfterGet(store, k, t) ==
  IF KvExpired(store, k, t)
  THEN [store EXCEPT ![k] = [@ EXCEPT !.present = FALSE, !.value = "none",
                                      !.exp = 0]]
  ELSE store

\* set: `exp: ttlMs ? Date.now() + ttlMs : undefined`
KvSet(store, k, v, ttlMs, t) ==
  [store EXCEPT ![k] = [@ EXCEPT !.present = TRUE, !.value = v,
                                 !.exp = IF ttlMs # 0 THEN t + ttlMs ELSE 0]]

\* del: `store.delete(keyFor(key))`
KvDelete(store, k) ==
  [store EXCEPT ![k] = [present |-> FALSE, value |-> "none", exp |-> 0,
                        dels |-> @.dels + 1]]

\* env.makeKv(namespace): stdEnv.makeKv makes a port over a new Map at every
\* call; an env with `makeKv: () => sharedKv` hands out the one port that
\* was made (by stdEnv.makeKv) before the engine
MakeKv(stores, env) ==
  IF env = "sharedKv" THEN [stores |-> stores, port |-> 1]
  ELSE [stores |-> Append(stores, EmptyKv), port |-> Len(stores) + 1]

\* the stores there are before the first execution
InitialStores(env) == IF env = "sharedKv" THEN <<EmptyKv>> ELSE NoStores

\* the instants just after a record has expired
KvExpiries ==
  {kv[p][k].exp + 1 :
     <<p, k>> \in {q \in (1..Len(kv)) \X KvKeys :
                    kv[q[1]][q[2]].present /\ kv[q[1]][q[2]].exp # 0}}

NoEngine == [macros |-> <<>>, env |-> "stdEnv", validate |-> FALSE]

\* no execution context yet
NoContexts ==
  [ctxs |-> <<>>, memos |-> <<>>, spans |-> <<>>, calls |-> <<>>, clears |-> 0]

\* makePool: `const free = []; const waiters = []; let total = 0`; no caller,
\* no instance and no drain yet
NoPool == [free |-> <<>>, waiters |-> <<>>, total |-> 0,
           acq |-> <<>>, insts |-> <<>>, made |-> 0,
           waited |-> <<>>, served |-> <<>>, drains |-> <<>>, dropped |-> {}]

\* no policy configured
NoCfg == [lease |-> FALSE, family |-> "http", circuit |-> FALSE, hasHalfOpen |-> FALSE,
          halfOpenAfterMs |-> 0, log |-> FALSE, retry |-> FALSE, times |-> 0,
          delayMs |-> 0, timeoutMs |-> 0, acquireMs |-> 0,
          jitter |-> FALSE, rand |-> 0]

----------------------------------------------------------------------------
(* The policy weaver: a woven method is the underlying function wrapped in  *)
(* the configured layers; Layers(c)[1] is the innermost wrapper.            *)

DefaultHalfOpenAfterMs == 30000

\* weave: wrapPort is applied to these capabilities only
WovenPorts == {"http", "kv", "db", "queue"}

\* a weaver that applies retry before log
PortOrder_RetryInsideLog == <<"circuit", "retry", "log", "timeout">>

\* wrapPort: circuit, then log, then retry, then timeout (each wraps the
\* result of the previous one)
PortOrder == <<"circuit", "log", "retry", "timeout">>

\* one acquire timer around the whole retry loop
AcquireOrder_TimerOutermost == <<"circuit", "log", "retry", "acquireTimeout">>

\* wrapAcquire: acquire-timeout, then circuit, then log, then retry
AcquireOrder == <<"acquireTimeout", "circuit", "log", "retry">>

\* the `if (...)` in front of each wrapper
Configured(c, kind) ==
  CASE kind = "circuit" -> c.circuit
    [] kind = "log" -> c.log
    [] kind = "retry" -> c.retry
    [] kind = "timeout" -> c.timeoutMs > 0
    [] kind = "acquireTimeout" -> c.acquireMs > 0

Layers(c) ==
  LET Test(kind) == Configured(c, kind)
  IN  IF c.lease THEN SelectSeq(AcquireOrder, Test)
      ELSE IF c.family \in WovenPorts THEN SelectSeq(PortOrder, Test)
      ELSE <<>>

\* the position of a wrapper in the stack (0: not configured)
LayerOf(c, kind) ==
  LET hits == {l \in 1..Len(Layers(c)) : Layers(c)[l] = kind}
  IN  IF hits = {} THEN 0 ELSE CHOOSE l \in hits : TRUE

\* wrapCircuit: `const cooldown = policy.halfOpenAfterMs ?? 30_000`
Cooldown(c) ==
  IF c.hasHalfOpen THEN c.halfOpenAfterMs ELSE DefaultHalfOpenAfterMs

\* a breaker that is still open at the instant openUntil
CircuitOpen_Inclusive(t, openUntil) == t <= openUntil

\* wrapCircuit: `if (now < openUntil)` rejects with circuit-open
CircuitOpen(t, openUntil) == t < openUntil

\* a breaker that a success leaves tripped
CircuitAfter_TripsAlways(ok, t, cooldown) == t + cooldown

\* wrapCircuit: openUntil after the wrapped function settled at time t
CircuitAfter(ok, t, cooldown) == IF ok THEN 0 ELSE t + cooldown

\* wrapCircuit: `return out` / `throw e`
CircuitResult(res) == res

\* a loop that makes `times` attempts in all
RetryContinue_OffByOne(attempt, times) == attempt < times

\* wrapRetry: `while (attempt <= times)`
RetryContinue(attempt, times) == attempt <= times

\* Math.random() returns rand / JitterGrain
JitterGrain == 4

\* a jitter that truncates instead of rounding
WithJitter_Truncated(delay, rand) ==
  (delay * (JitterGrain + 2 * rand)) \div (2 * JitterGrain)

\* withJitter: Math.round(delay * (0.5 + r)) with r = rand / JitterGrain;
\* Math.round(x) is floor(x + 0.5)
WithJitter(delay, rand) ==
  (delay * (JitterGrain + 2 * rand) + JitterGrain) \div (2 * JitterGrain)

\* wrapRetry: `const delay = jitter ? withJitter(delayMs) : delayMs`
RetryDelay(c) == IF c.jitter THEN WithJitter(c.delayMs, c.rand) ELSE c.delayMs

\* a wrapper that forgets the acquire once its timer has fired
ShouldReleaseLate_Never(timedOut, resolved, releasable) == FALSE

\* withAcquireTimeout: `timedOut && res && typeof res.release === "function"`
ShouldReleaseLate(timedOut, resolved, releasable) ==
  timedOut /\ resolved /\ releasable

\* withTimeout's default label
TimeoutLabel_Default == "timeout"

\* wrapTimeout: `withTimeout(p, ms, "effect-timeout")`
TimeoutLabel == "effect-timeout"

\* withTimeout: `setTimeout(() => reject(new Error(label)), ms)`
TimeoutDeadline(t, ms) == t + ms

\* setTimeout(callback, ms): the callback runs once the event loop's clock has
\* counted ms.  Date.now() is another clock, read in whole milliseconds: when
\* the callback runs it may still show one millisecond less than the instant
\* the timer was set for
TimerDue(t, due) == t + 1 >= due

\* state, attempt, lastErr, sleepUntil, timer, deadline: the locals of the
\* wrappers; the other fields record what the call did
NewCall ==
  [state |-> "new", attempt |-> 0, lastErr |-> "none", sleepUntil |-> 0,
   timer |-> "none", deadline |-> 0, caller |-> Pending,
   startedAt |-> 0, settledAt |-> 0, logs |-> <<>>,
   trace |-> <<>>, fnCalls |-> 0, checks |-> <<>>, circOut |-> <<>>,
   circSet |-> <<>>, delays |-> <<>>,
   attemptRes |-> <<>>, retryRes |-> Pending]

\* a machine state m = [id, c, circ, inv]: the logical call id with record c,
\* the circuit state and the invocations of the underlying function

\* the underlying function is invoked (withAcquireTimeout arms its timer)
Invoke(m, armed) ==
  [m EXCEPT !.c.state = "waiting",
            !.c.fnCalls = @ + 1,
            !.c.trace = Append(@, "fn"),
            !.inv = Append(@, [call |-> m.id, res |-> Pending, at |-> now,
                               timer |-> IF armed THEN "armed" ELSE "none",
                               deadline |-> now + cfg.acquireMs,
                               timedOut |-> FALSE, releasable |-> FALSE,
                               released |-> 0, race |-> Pending,
                               firedAt |-> 0,
                               late |-> m.c.caller # Pending])]

Enter(m, kind) == [m EXCEPT !.c.trace = Append(@, kind)]

\* the method called on a port, and the lease opener called
PortMethod == "get"
LeaseOpener == "tempDir"

\* `${family}.${String(key)}`: wrapPort passes the port's name as family,
\* wrapLeaseFn passes "lease.<opener>" and the wrapped method is `acquire`
LogLabel(c) ==
  IF c.lease THEN "lease." \o LeaseOpener \o ".acquire"
  ELSE c.family \o "." \o PortMethod

\* logger?.[level]?.(`${family}.${String(key)} ${what}`, ...)
LogLine(level, what) == <<level, LogLabel(cfg) \o " " \o what>>

Log(m, level, what) ==
  IF cfg.log THEN [m EXCEPT !.c.logs = Append(@, LogLine(level, what))] ELSE m

\* a log wrapper that reports every attempt as a success
LogEntry_AlwaysOk(ok) == <<"debug", "ok">>

\* wrapLog: debug "... ok" after the await, error "... err" in the catch
LogEntry(ok) == IF ok THEN <<"debug", "ok">> ELSE <<"error", "err">>

\* a timeout wrapper that lets a late settlement through
TimeoutPasses_Always(timer) == TRUE

\* withTimeout: the settlement of the wrapped promise settles the returned
\* promise unless the timer has rejected it already
TimeoutPasses(timer) == timer = "armed"

RECURSIVE Descend(_, _), Settle(_, _, _)

\* Descend(l, m): the function made of layers 1..l is called; runs up to the
\* first await that does not settle at once
Descend(l, m) ==
  IF l = 0 THEN Invoke(m, FALSE)
  ELSE
    LET kind == Layers(cfg)[l] IN
    CASE kind = "acquireTimeout" -> Invoke(Enter(m, kind), TRUE)
      [] kind = "circuit" ->
           LET open == CircuitOpen(now, m.circ)
               m1 == [Enter(m, kind) EXCEPT
                        !.c.checks = Append(@, [t |-> now, openUntil |-> m.circ,
                                                passed |-> ~open])]
           IN  IF open
               THEN Settle(l, Rejected("circuit-open"),
                           [Log(m1, "warn", "circuit-open") EXCEPT
                              !.c.circOut = Append(@, Rejected("circuit-open"))])
               ELSE Descend(l - 1, m1)
      [] kind = "log" -> Descend(l - 1, Enter(m, kind))
      [] kind = "retry" -> Descend(l - 1, Enter(m, kind))
      [] kind = "timeout" ->
           Descend(l - 1, [Enter(m, kind) EXCEPT
                             !.c.timer = "armed",
                             !.c.deadline = TimeoutDeadline(now, cfg.timeoutMs)])

\* Settle(l, res, m): the function made of layers 1..l has settled with res;
\* the continuation of layer l+1 runs, and so on outwards
Settle(l, res, m) ==
  LET ok == res.kind = "resolved" IN
  IF l = Len(Layers(cfg))
  THEN [m EXCEPT !.c.state = "finished",
                 !.c.settledAt = IF m.c.caller = Pending THEN now ELSE @,
                 !.c.caller = IF @ = Pending THEN res ELSE @]
  ELSE
    LET kind == Layers(cfg)[l + 1] IN
    CASE kind = "acquireTimeout" -> Settle(l + 1, res, m)
      [] kind = "circuit" ->
           LET m1 == [m EXCEPT
                        !.circ = CircuitAfter(ok, now, Cooldown(cfg)),
                        !.c.circSet =
                          Append(@, CircuitAfter(ok, now, Cooldown(cfg))),
                        !.c.circOut = Append(@, CircuitResult(res))]
           IN  Settle(l + 1, CircuitResult(res),
                      IF ok THEN m1 ELSE Log(m1, "warn", "circuit-trip"))
      [] kind = "log" ->
           Settle(l + 1, res,
                  Log(m, LogEntry(ok)[1], LogEntry(ok)[2]))
      [] kind = "retry" ->
           LET m1 == [m EXCEPT !.c.attemptRes = Append(@, res)] IN
           IF ok THEN Settle(l + 1, res, [m1 EXCEPT !.c.retryRes = res])
           ELSE [m1 EXCEPT !.c.lastErr = res.val,
                           !.c.delays = Append(@, RetryDelay(cfg)),
                           !.c.state = "sleeping",
                           !.c.sleepUntil = now + RetryDelay(cfg)]
      [] kind = "timeout" ->
           IF TimeoutPasses(m.c.timer)
           THEN Settle(l + 1, res, [m EXCEPT !.c.timer = "cleared"])
           ELSE [m EXCEPT !.c.state = "finished"]

Machine(i) == [id |-> i, c |-> call[i], circ |-> circ, inv |-> inv]

\* the machine state becomes the next state
Commit(m) ==
  /\ call' = IF m.id > Len(call) THEN Append(call, m.c)
             ELSE [call EXCEPT ![m.id] = m.c]
  /\ circ' = m.circ
  /\ inv' = m.inv

\* a caller calls the woven method; a caller that is `awaited` calls it again
\* only once its previous call has settled
StartCall(max, awaited) ==
  /\ Len(call) < max
  /\ awaited => \A i \in 1..Len(call) : call[i].caller # Pending
  /\ Commit(Descend(Len(Layers(cfg)),
                    [id |-> Len(call) + 1,
                     c |-> [NewCall EXCEPT !.startedAt = now],
                     circ |-> circ, inv |-> inv]))
  /\ UNCHANGED <<hc, pool, br, now, cfg, ticks, ex, kv, eng>>

\* a race that takes the last settlement
RaceOutcome_LastWins(prev, res) == res

\* Promise.race([acquirePromise, timeoutPromise]): the first settlement is the
\* outcome, a later one changes nothing
RaceOutcome(prev, res) == IF prev = Pending THEN res ELSE prev

\* an invocation of the underlying function settles; after an acquire-timeout
\* the wrapper's own handler releases the late resource
InvSettle(j, res, rel) ==
  /\ inv[j].res = Pending
  /\ LET late == ShouldReleaseLate(inv[j].timedOut, res.kind = "resolved", rel)
         inv2 == [inv EXCEPT ![j] =
                    [@ EXCEPT !.res = res,
                              !.at = now,
                              !.releasable = rel,
                              !.timer = IF @ = "armed" THEN "cleared" ELSE @,
                              !.released = IF late THEN @ + 1 ELSE @,
                              !.race = RaceOutcome(@, res)]]
         m == [Machine(inv[j].call) EXCEPT !.inv = inv2]
     IN  IF inv[j].timedOut THEN Commit(m) ELSE Commit(Settle(0, res, m))
  /\ UNCHANGED <<hc, pool, br, now, cfg, ticks, ex, kv, eng>>

\* withAcquireTimeout: the acquireMs timer fires before the acquire settled
AcqTimerFire(j) ==
  /\ inv[j].res = Pending
  /\ inv[j].timer = "armed"
  /\ TimerDue(now, inv[j].deadline)
  /\ LET inv2 == [inv EXCEPT ![j] =
                    [@ EXCEPT !.timer = "fired", !.timedOut = TRUE,
                              !.firedAt = now,
                              !.race = Rejected("acquire-timeout")]]
         m == [Machine(inv[j].call) EXCEPT !.inv = inv2]
     IN  Commit(Settle(LayerOf(cfg, "acquireTimeout"),
                       Rejected("acquire-timeout"), m))
  /\ UNCHANGED <<hc, pool, br, now, cfg, ticks, ex, kv, eng>>

\* wrapRetry: the sleep between attempts is over
SleepDone(i) ==
  /\ call[i].state = "sleeping"
  /\ TimerDue(now, call[i].sleepUntil)
  /\ LET l == LayerOf(cfg, "retry")
         m == [Machine(i) EXCEPT !.c.attempt = @ + 1]
         last == Rejected(m.c.lastErr)
     IN  IF RetryContinue(m.c.attempt, cfg.times)
         THEN Commit(Descend(l, m))
         ELSE Commit(Settle(l, last, [m EXCEPT !.c.retryRes = last]))
  /\ UNCHANGED <<hc, pool, br, now, cfg, ticks, ex, kv, eng>>

\* withTimeout: the timer fires before the wrapped promise settled; the
\* wrapped call is not cancelled and goes on
TimeoutFire(i) ==
  /\ call[i].timer = "armed"
  /\ TimerDue(now, call[i].deadline)
  /\ LET m == [Machine(i) EXCEPT !.c.timer = "fired"]
         m2 == Settle(LayerOf(cfg, "timeout"), Rejected(TimeoutLabel), m)
     IN  Commit([m2 EXCEPT !.c.state = call[i].state])
  /\ UNCHANGED <<hc, pool, br, now, cfg, ticks, ex, kv, eng>>

MaxTicks == 2

\* time passes: by 1 ms, or up to the end of the cooldown or to the instant
\* a KV record has expired.  Date.now() is the real clock and a timer callback
\* runs when the event loop gets to it: the clock may pass the instant a
\* pending timer is due before the callback has run
Tick ==
  /\ ticks < MaxTicks
  /\ \E t \in {now + 1, circ} \cup KvExpiries :
       /\ t > now
       /\ now' = t
  /\ ticks' = ticks + 1
  /\ UNCHANGED <<hc, pool, br, circ, cfg, call, inv, ex, kv, eng>>

InvResults == {Resolved("v1"), Rejected("e1"), Rejected("e2")}

NCalls == 1

\* the calls a caller makes, one after the other: a single one of a method
\* whose retry budget is above one
CallsOf(c) == IF c.times > 1 THEN 1 ELSE NCalls

NextPort ==
  \/ StartCall(CallsOf(cfg), TRUE)
  \/ \E j \in 1..Len(inv) : \E res \in InvResults : InvSettle(j, res, FALSE)
  \/ \E i \in 1..Len(call) : SleepDone(i)
  \/ \E i \in 1..Len(call) : TimeoutFire(i)
  \/ Tick

MaxTimes == 2

WeaveCfgs ==
  {c \in [lease : BOOLEAN, family : {"http", "kv", "db", "queue", "time"},
          circuit : BOOLEAN, hasHalfOpen : BOOLEAN, halfOpenAfterMs : {0, 2},
          log : BOOLEAN, retry : BOOLEAN, times : 0..MaxTimes, delayMs : {0, 1, 2},
          timeoutMs : {0, 3}, acquireMs : {0, 1, 2},
          jitter : {FALSE}, rand : {0}] :
     /\ (~c.retry => c.times = 0 /\ c.delayMs = 0)
     /\ (~c.circuit => ~c.hasHalfOpen)
     /\ (~c.hasHalfOpen => c.halfOpenAfterMs = 0)}

AllConfigured(c) == c.circuit /\ c.log /\ c.retry /\ c.timeoutMs > 0

\* port methods: every combination of policies on http, all four policies on
\* the other capabilities.  A retry delay of 2 lets the sleep end at 1, 2, ..
\* after the failure, a delay of 1 also at once; a timeout of 3 fires at 2
\* or later; the cooldown of the circuit is as long as the delay, or 0
PortCfgs ==
  {c \in WeaveCfgs :
     /\ ~c.lease /\ c.acquireMs = 0
     /\ (c.circuit => c.hasHalfOpen)
     /\ \/ c.times <= 1 /\ (c.retry => c.delayMs = 2)
        \/ c.times > 1 /\ c.delayMs = 0
             /\ ~c.circuit /\ ~c.log /\ c.timeoutMs = 0
        \/ c.times = 2 /\ c.delayMs = 2 /\ c.family = "http"
             /\ AllConfigured(c) /\ c.halfOpenAfterMs = 2
        \/ c.times = 1 /\ c.delayMs = 1
             /\ ~c.circuit /\ ~c.log /\ c.timeoutMs = 0
     /\ (c.family # "http" =>
           AllConfigured(c) /\ c.times = 1 /\ c.halfOpenAfterMs = 0)}

InitWeave(cfgs) ==
  /\ br = <<>>
  /\ now = 0
  /\ circ = 0
  /\ cfg \in cfgs
  /\ call = <<>>
  /\ inv = <<>>
  /\ ticks = 0
  /\ ex = <<>>
  /\ kv = NoStores
  /\ eng = NoEngine
  /\ pool = NoPool
  /\ hc = NoContexts

SpecPort == InitWeave(PortCfgs) /\ [][NextPort]_vars

\* calls that share one circuit state, with and without retry; the first two
\* calls may be in flight together
NCircuitCalls == 3

CircuitCfgs ==
  {c \in WeaveCfgs :
     /\ ~c.lease /\ c.family = "http" /\ c.circuit /\ ~c.log
     /\ (c.retry => c.delayMs = 2)
     /\ c.timeoutMs = 0 /\ c.acquireMs = 0 /\ c.times <= 1}

NextCircuit ==
  \/ StartCall(NCircuitCalls, Len(call) > 1)
  \/ \E j \in 1..Len(inv) : \E res \in InvResults : InvSettle(j, res, FALSE)
  \/ \E i \in 1..Len(call) : SleepDone(i)
  \/ Tick

SpecCircuit == InitWeave(CircuitCfgs) /\ [][NextCircuit]_vars

\* lease openers (db, tempDir, lock, socket); timeout.ms is set only together
\* with every other policy.  An acquireMs of 2 lets the timer fire at 1 or
\* later, the acquireMs of 1 of the openers without other policies also at
\* once.  The circuit has any of the cooldowns, the default included, and
\* the retry a delay of 0 or 2
AcquireCfgs ==
  {c \in WeaveCfgs :
     /\ c.lease /\ c.family = "http" /\ c.delayMs # 1 /\ c.times <= 1
     /\ (c.acquireMs = 1 => ~c.circuit /\ ~c.log /\ ~c.retry)
     /\ (c.timeoutMs > 0 =>
           c.circuit /\ c.log /\ c.retry /\ c.acquireMs > 0)}

\* an acquire resolves with a Releasable or with a value that has no release
\* function, or rejects
AcquireResults ==
  {[res |-> Resolved("v1"), rel |-> TRUE], [res |-> Resolved("v1"), rel |-> FALSE],
   [res |-> Rejected("e1"), rel |-> FALSE]}

NextAcquire ==
  \/ StartCall(NCalls, TRUE)
  \/ \E j \in 1..Len(inv) : \E r \in AcquireResults :
       InvSettle(j, r.res, r.rel)
  \/ \E j \in 1..Len(inv) : AcqTimerFire(j)
  \/ \E i \in 1..Len(call) : SleepDone(i)
  \/ Tick

SpecAcquire == InitWeave(AcquireCfgs) /\ [][NextAcquire]_vars

(* Circuit state across executions.  runStep weaves the capabilities anew   *)
(* for every execution; wrapCircuit takes its state object at that moment.  *)

NRuns == 2
NRunCalls == 3

\* a provider that hands every weave one shared state, whatever the env
GetCircuitState_Global(provided, stored) == stored

\* getCircuitState: the provider's state for the circuit name, or a fresh
\* { openUntil: 0 } when the env has no makeCircuit
GetCircuitState(provided, stored) == IF provided THEN stored ELSE 0

\* runStep weaves the capabilities of a new execution: wrapCircuit takes the
\* circuit state once, here; executions follow one another, the previous one
\* has nothing in flight, and all steps name the same circuit
RunStepWeave(provided) ==
  /\ Len(ex) < NRuns
  /\ \A i \in 1..Len(call) : call[i].caller # Pending
  /\ \A j \in 1..Len(inv) : inv[j].res # Pending
  /\ ex' = Append(ex, [pc |-> "run", firstCall |-> Len(call) + 1,
                       wovenAt |-> now])
  /\ circ' = GetCircuitState(provided, circ)
  /\ UNCHANGED <<hc, pool, br, now, cfg, call, inv, ticks, kv, eng>>

\* the step's run calls the woven port; its first two calls may be concurrent
RunCall ==
  /\ Len(ex) > 0
  /\ StartCall(NRunCalls, Len(call) > 1 \/ ex[Len(ex)].firstCall > 1)

\* the execution that made call i
ExecOf(i) ==
  CHOOSE e \in 1..Len(ex) :
    /\ ex[e].firstCall <= i
    /\ \A f \in (e + 1)..Len(ex) : ex[f].firstCall > i

RunCfgs ==
  {c \in WeaveCfgs :
     /\ ~c.lease /\ c.family = "http" /\ c.circuit /\ ~c.log /\ ~c.retry
     /\ (c.hasHalfOpen => c.halfOpenAfterMs > 0)
     /\ c.timeoutMs = 0 /\ c.acquireMs = 0}

\* the underlying method succeeds or fails
BreakerResults == {Resolved("v1"), Rejected("e1")}

NextRuns(provided) ==
  \/ RunStepWeave(provided)
  \/ RunCall
  \/ \E j \in 1..Len(inv) : \E res \in BreakerResults :
       InvSettle(j, res, FALSE)
  \/ Tick

NextPerRun == NextRuns(FALSE)

NextNamed == NextRuns(TRUE)

\* env without makeCircuit
SpecPerRun == InitWeave(RunCfgs) /\ [][NextPerRun]_vars

\* env with makeCircuit, as the standard env
SpecNamed == InitWeave(RunCfgs) /\ [][NextNamed]_vars

(* Calls of a woven port method and of a woven lease opener with a logger.  *)

LogCfgs ==
  {c \in PortCfgs \cup AcquireCfgs : c.log /\ (c.lease \/ c.family \in WovenPorts)}

NextLog ==
  \/ StartCall(CallsOf(cfg), TRUE)
  \/ \E j \in 1..Len(inv) : \E res \in InvResults : \E rel \in BOOLEAN :
       /\ rel => cfg.lease /\ res.kind = "resolved"
       /\ InvSettle(j, res, rel)
  \/ \E j \in 1..Len(inv) : AcqTimerFire(j)
  \/ \E i \in 1..Len(call) : SleepDone(i)
  \/ \E i \in 1..Len(call) : TimeoutFire(i)
  \/ Tick

SpecLog == InitWeave(LogCfgs) /\ [][NextLog]_vars

(* Retry with jitter, on a port method and on a lease opener.               *)

MaxDelayMs == 2

JitterCfgs ==
  {c \in [lease : BOOLEAN, family : {"http"},
          circuit : {FALSE}, hasHalfOpen : {FALSE}, halfOpenAfterMs : {0},
          log : {FALSE}, retry : {TRUE}, times : {1}, delayMs : 0..MaxDelayMs,
          timeoutMs : {0}, acquireMs : {0},
          jitter : BOOLEAN, rand : 0..(JitterGrain - 1)] :
     ~c.jitter => c.rand = 0}

NextJitter ==
  \/ StartCall(NCalls, TRUE)
  \/ \E j \in 1..Len(inv) : \E res \in InvResults : InvSettle(j, res, FALSE)
  \/ \E i \in 1..Len(call) : SleepDone(i)
  \/ Tick

SpecJitter == InitWeave(JitterCfgs) /\ [][NextJitter]_vars

(* lease.tx.  weave replaces out.lease by a new object whose tx is           *)
(* `async (fn) => out.lease.tx(fn)`; the closure reads out.lease.tx when it  *)
(* is called.                                                                *)

NTxCalls == 2
MaxStack == 3

\* what out.lease.tx denotes when the woven tx runs: weave has assigned the
\* new lease object to out.lease by then, so it is the woven tx itself and
\* not the tx the macro supplied ("macro")
TxBinding == "woven"

\* the body of the woven tx at call depth d: it calls out.lease.tx(fn)
\* synchronously; the engine throws RangeError when the stack is exhausted,
\* and every async frame turns that into its own rejection
RECURSIVE TxWrapper(_, _)
TxWrapper(d, m) ==
  IF d > MaxStack
  THEN [m EXCEPT !.c.state = "finished", !.c.settledAt = now,
                 !.c.caller = Rejected("RangeError")]
  ELSE IF TxBinding = "woven" THEN TxWrapper(d + 1, Enter(m, "tx"))
  ELSE Invoke(Enter(m, "tx"), FALSE)

\* the step's run calls ctx.lease.tx(fn)
TxCall ==
  /\ Len(call) < NTxCalls
  /\ \A i \in 1..Len(call) : call[i].caller # Pending
  /\ Commit(TxWrapper(1, [id |-> Len(call) + 1,
                          c |-> [NewCall EXCEPT !.startedAt = now],
                          circ |-> circ, inv |-> inv]))
  /\ UNCHANGED <<hc, pool, br, now, cfg, ticks, ex, kv, eng>>

\* the policies of the step do not matter to lease.tx
TxCfgs ==
  {c \in WeaveCfgs :
     /\ c.lease /\ c.family = "db" /\ c.delayMs = 0 /\ c.times <= 1
     /\ (c.circuit => c.hasHalfOpen /\ c.halfOpenAfterMs = 0)}

NextTx ==
  \/ TxCall
  \/ Tick

SpecTx == InitWeave(TxCfgs) /\ [][NextTx]_vars

----------------------------------------------------------------------------
(* The executor: runStep(step, cfg, engine).  A macro is a record of the     *)
(* engine's macro list; a step declares the macro keys it uses in its meta.  *)

NMacros == 2

\* the capability key that no macro of the engine provides
UnknownKey == 0

Macro(kind, hooks) ==
  [kind |-> kind, before |-> "before" \in hooks, after |-> "after" \in hooks,
   onError |-> "onError" \in hooks]

\* macro.match(step.meta): the macro's key is declared in the step's meta
Matches(step, m) == m \in step.meta

\* macros.filter((macro) => macro.match(step.meta)), in the order of the list
RECURSIVE Matched(_, _)
Matched(step, m) ==
  IF m > Len(eng.macros) THEN <<>>
  ELSE (IF Matches(step, m) THEN <<m>> ELSE <<>>) \o Matched(step, m + 1)

\* a validation that does not look at the capability keys
ValidateStep_KeysUnchecked(step) ==
  (IF step.defect = "noName" THEN {"name"} ELSE {})
    \cup (IF step.defect = "noRun" THEN {"run"} ELSE {})

\* validateStep: a name, a meta object, a run function, and no capability
\* key without a macro
ValidateStep(step) ==
  (IF step.defect = "noName" THEN {"name"} ELSE {})
    \cup (IF step.defect = "noRun" THEN {"run"} ELSE {})
    \cup (IF UnknownKey \in step.meta THEN {"unknown-capability"} ELSE {})

\* validateMeta: the policy values of a meta object; the defect "policy"
\* stands for retry.times < 0, retry.delayMs < 0 or timeout.ms < 0.
\* assertValidStep does not call it
ValidateMeta(step) ==
  (IF step.defect = "policy" THEN {"invalid-policy"} ELSE {})
    \cup (IF UnknownKey \in step.meta THEN {"unknown-capability"} ELSE {})

\* `!step || typeof step.run !== "function"`, then assertValidStep if validate
StepError(step) ==
  IF step.defect = "noRun" THEN "invalid step"
  ELSE IF eng.validate /\ ValidateStep(step) # {} THEN "validation"
  ELSE "none"

\* the keys of a capability set, at top level and under `lease`
CapKeys == {"bracket", "kv"}
LeaseKeys == {"db", "lock"}

\* who provided a key: nobody, the executor (`{ bracket }`), or macro m >= 1
Absent == -1
Core == 0

\* const caps: any = { bracket }
InitialCaps ==
  [top |-> [k \in CapKeys |-> IF k = "bracket" THEN Core ELSE Absent],
   lease |-> [k \in LeaseKeys |-> Absent]]

\* what a resolve can resolve with: nothing, {}, or an object with top-level
\* keys and lease keys; any other value contributes no capability
PartialOf(id) ==
  CASE id = "undefined" -> [falsy |-> TRUE, top |-> {}, lease |-> {}]
    [] id = "caps" -> [falsy |-> FALSE, top |-> {}, lease |-> {}]
    [] id = "kv" -> [falsy |-> FALSE, top |-> {"kv"}, lease |-> {}]
    [] id = "lease.db" -> [falsy |-> FALSE, top |-> {}, lease |-> {"db"}]
    [] id = "kv+lease.db" -> [falsy |-> FALSE, top |-> {"kv"}, lease |-> {"db"}]
    [] id = "kv+lease.db+lock" ->
         [falsy |-> FALSE, top |-> {"kv"}, lease |-> {"db", "lock"}]
    [] OTHER -> [falsy |-> FALSE, top |-> {}, lease |-> {}]

\* an array filled in the order in which the resolve promises settled
ResolvedArray_InSettleOrder(x) ==
  [k \in 1..Len(x.settled) |->
     <<x.matched[x.settled[k]], x.resolves[x.matched[x.settled[k]]].val>>]

\* the array Promise.all resolves with: the partials in the order of `matched`
ResolvedArray(x) ==
  [j \in 1..Len(x.matched) |-> <<x.matched[j], x.resolves[x.matched[j]].val>>]

\* one round of `for (const partial of resolved)`: Object.assign for the
\* top-level keys, a shallow merge for lease
MergePartial(caps, m, id) ==
  IF PartialOf(id).falsy THEN caps
  ELSE [top |-> [k \in CapKeys |->
                   IF k \in PartialOf(id).top THEN m ELSE caps.top[k]],
        lease |-> [k \in LeaseKeys |->
                     IF k \in PartialOf(id).lease THEN m ELSE caps.lease[k]]]

RECURSIVE MergeFrom(_, _, _)
MergeFrom(caps, resolved, k) ==
  IF k > Len(resolved) THEN caps
  ELSE MergeFrom(MergePartial(caps, resolved[k][1], resolved[k][2]), resolved, k + 1)

NewExecution(step) ==
  [step |-> step, pc |-> "validate", matched |-> <<>>,
   resolves |-> [m \in 1..Len(eng.macros) |-> Pending], settled |-> <<>>,
   caps |-> InitialCaps, store |-> 0, got |-> "none", storedAt |-> 0,
   idx |-> 0, skip |-> FALSE, value |-> "none", setIn |-> <<>>,
   result |-> "none", error |-> "none", thrower |-> "none",
   runRes |-> Pending, outcome |-> Pending, doneAt |-> 0,
   phases |-> <<"validate">>, hooks |-> <<>>, runs |-> 0]

\* the promise runStep returned settles
Finish(x, res) == [x EXCEPT !.pc = "done", !.outcome = res, !.doneAt = now]

\* setMacroResult(ctx, v), called during the given phase
SetMacroResult(x, v, phase) ==
  [x EXCEPT !.skip = TRUE, !.value = v, !.setIn = Append(@, <<phase, v>>)]

\* hasMacroResult(ctx)
HasMacroResult(x) == x.skip

\* getMacroResult(ctx)
GetMacroResult(x) == x.value

\* a loop that takes the macros from the end of the list
NextHook_Last(x, hook, k) ==
  LET S == {j \in 1..Len(x.matched) :
              /\ eng.macros[x.matched[j]][hook]
              /\ \A q \in 1..Len(x.hooks) :
                   ~(x.hooks[q][1] = hook /\ x.hooks[q][2] = x.matched[j])}
  IN IF S = {} THEN 0 ELSE CHOOSE j \in S : \A i \in S : j >= i

\* the first position >= k of `matched` whose macro has the hook; 0 if none
NextHook(x, hook, k) ==
  LET S == {j \in k..Len(x.matched) : eng.macros[x.matched[j]][hook]}
  IN IF S = {} THEN 0 ELSE CHOOSE j \in S : \A i \in S : j <= i

\* macro.before(ctx), macro.after(result, ctx), macro.onError(error, ctx):
\* the log keeps the value an after hook is given
InvokeHook(x, hook, j) ==
  [x EXCEPT !.pc = hook, !.idx = j,
            !.hooks = Append(@, <<hook, x.matched[j], "start",
                                  IF hook = "after" THEN x.result ELSE "none">>)]

\* the hook's promise settles: it returned, called setMacroResult and
\* returned, or threw
HookSettled(x, beh) ==
  [x EXCEPT !.hooks = Append(@, <<x.pc, x.matched[x.idx], beh.act, beh.val>>)]

AfterBefore_IgnoresResult(x) ==
  [x EXCEPT !.pc = "run", !.runs = @ + 1, !.phases = Append(@, "run")]

\* `const out = await step.run(ctx)`, unless a macro result has been set
AfterBefore(x) ==
  IF HasMacroResult(x) THEN Finish(x, Resolved(GetMacroResult(x)))
  ELSE [x EXCEPT !.pc = "run", !.runs = @ + 1, !.phases = Append(@, "run")]

\* a before loop that tests the macro result before every hook
EnterBefore_StopsAtResult(x, k) ==
  LET j == NextHook(x, "before", k)
  IN IF j > 0 /\ ~HasMacroResult(x) THEN InvokeHook(x, "before", j)
     ELSE AfterBefore(x)

\* for (const macro of matched) if (macro.before) await macro.before(ctx)
EnterBefore(x, k) ==
  LET j == NextHook(x, "before", k)
  IN IF j > 0 THEN InvokeHook(x, "before", j) ELSE AfterBefore(x)

\* an after loop that drops what the hooks return
AfterReturned_Dropped(x, v) == x

\* result = await macro.after(result, ctx)
AfterReturned(x, v) == [x EXCEPT !.result = v]

\* the end of the try block
AfterAfter(x) ==
  IF HasMacroResult(x) THEN Finish(x, Resolved(GetMacroResult(x)))
  ELSE Finish(x, Resolved(x.result))

\* for (const macro of matched) if (macro.after) result = await macro.after(..)
EnterAfter(x, k) ==
  LET j == NextHook(x, "after", k)
  IN IF j > 0 THEN InvokeHook(x, "after", j) ELSE AfterAfter(x)

AfterOnError_Swallows(x) == Finish(x, Resolved("undefined"))

\* the end of the catch block
AfterOnError(x) ==
  IF HasMacroResult(x) THEN Finish(x, Resolved(GetMacroResult(x)))
  ELSE Finish(x, Rejected(x.error))

\* for (const macro of matched) if (macro.onError) ...
EnterOnError(x, k) ==
  LET j == NextHook(x, "onError", k)
  IN IF j > 0 THEN InvokeHook(x, "onError", j) ELSE AfterOnError(x)

Catch_ReRun(x, e, by) ==
  [x EXCEPT !.pc = "run", !.runs = @ + 1, !.phases = Append(@, "run")]

\* catch (error): thrown by step.run or by an after hook
Catch(x, e, by) ==
  EnterOnError([x EXCEPT !.error = e, !.thrower = by,
                         !.phases = Append(@, "onError")], 1)

\* a before loop inside the try block
BeforeThrew_Caught(x, e) == Catch(x, e, "before")

\* `await macro.before(ctx)` stands before the try block: what a before hook
\* throws rejects the promise of runStep
BeforeThrew(x, e) == Finish(x, Rejected(e))

\* Promise.all over the resolve promises of the matched macros
PromiseAll_AllSettled(x) ==
  IF \A j \in 1..Len(x.matched) : x.resolves[x.matched[j]].kind # "pending"
  THEN "resolved" ELSE "pending"

PromiseAll(x) ==
  IF \E j \in 1..Len(x.matched) : x.resolves[x.matched[j]].kind = "rejected"
  THEN "rejected"
  ELSE IF \A j \in 1..Len(x.matched) : x.resolves[x.matched[j]].kind = "resolved"
  THEN "resolved" ELSE "pending"

\* merge the partials, weave, attach the helpers, then the before hooks
AfterResolve(x) ==
  EnterBefore([x EXCEPT !.caps = MergeFrom(InitialCaps, ResolvedArray(x), 1),
                        !.phases = @ \o <<"weave", "before">>], 1)

----------------------------------------------------------------------------
(* idempotencyMacro (std macros): its hooks are functions of the context and *)
(* of the KV store.                                                         *)

DefaultIdemTtlMs == 300000

\* `idem:${key}`
IdemStoreKey(key) == "idem:" \o key

\* ctx?.meta?.idempotency?.key ?? ctx?.idempotencyKey
IdemKey(step) == IF step.idemKey # "unset" THEN step.idemKey ELSE step.dynKey

\* `ctx.kv`: the (woven) capability a resolve provided
HasKv(x) == x.caps.top["kv"] # Absent

\* `if (!key || !ctx.kv) return`
IdemActive(x) == IdemKey(x.step) \notin {"unset", ""} /\ HasKv(x)

\* existing !== null && existing !== undefined
IdemHit(existing) == existing \notin {"null", "undefined"}

\* ctx.meta?.idempotency?.ttlMs ?? 5 * 60_000
IdemTtl(step) == IF step.hasTtl THEN step.ttlMs ELSE DefaultIdemTtlMs

\* the before hook after `await ctx.kv.get(...)`: x.got is what the get,
\* made when the hook was called, answered
IdemBefore(x) ==
  IF ~IdemActive(x) THEN [act |-> "return", val |-> "undefined"]
  ELSE IF IdemHit(x.got) THEN [act |-> "set", val |-> x.got]
  ELSE [act |-> "return", val |-> "undefined"]

\* the after hook stores the value unless a macro result has been set
IdemStores(x) == IdemActive(x) /\ ~HasMacroResult(x)

IdemAfter(x) ==
  IF ~IdemActive(x) THEN [act |-> "return", val |-> x.result]
  ELSE IF HasMacroResult(x) THEN [act |-> "return", val |-> GetMacroResult(x)]
  ELSE [act |-> "return", val |-> x.result]

----------------------------------------------------------------------------
(* What the hooks of the other macros may do.                               *)

BeforeBehaviours ==
  {[act |-> "return", val |-> "undefined"], [act |-> "throw", val |-> "eB"]}
    \cup {[act |-> "set", val |-> v] : v \in Values}

AfterBehaviours ==
  {[act |-> "return", val |-> v] : v \in Values}
    \cup {[act |-> "set", val |-> "v2"], [act |-> "throw", val |-> "eA"]}

OnErrorBehaviours ==
  {[act |-> "return", val |-> "undefined"], [act |-> "throw", val |-> "eH"],
   [act |-> "set", val |-> "v2"]}
    \cup {[act |-> "return", val |-> v] : v \in Values}

HookMacro(x) == eng.macros[x.matched[x.idx]]

\* The executor has gone from x to y.  When it has called a hook of the
\* idempotency macro on the way, the hook has run up to its first await:
\* before has made its `ctx.kv.get(...)`, which deletes an expired record, and
\* after, unless a macro result is set, its `ctx.kv.set(...)`, both on the
\* clock of the call.  The hook's promise settles in a later step.
CallHook(stores, x, y) ==
  LET called == /\ y.pc \in {"before", "after"}
                /\ y.hooks # x.hooks
                /\ y.hooks[Len(y.hooks)][3] = "start"
                /\ eng.macros[y.matched[y.idx]].kind = "idem"
                /\ IdemActive(y)
      k == IdemStoreKey(IdemKey(y.step))
  IN  IF ~called THEN [x |-> y, stores |-> stores]
      ELSE IF y.pc = "before"
      THEN [x |-> [y EXCEPT !.got = KvGet(stores[y.store], k, now)],
            stores |-> [stores EXCEPT ![y.store] = KvAfterGet(@, k, now)]]
      ELSE IF IdemStores(y)
      THEN [x |-> [y EXCEPT !.storedAt = now],
            stores |-> [stores EXCEPT ![y.store] =
                          KvSet(@, k, y.result, IdemTtl(y.step), now)]]
      ELSE [x |-> y, stores |-> stores]

BeforeChoices(x) ==
  IF HookMacro(x).kind = "idem" THEN {IdemBefore(x)} ELSE BeforeBehaviours

AfterChoices(x) ==
  IF HookMacro(x).kind = "idem" THEN {IdemAfter(x)} ELSE AfterBehaviours

----------------------------------------------------------------------------
(* The steps of one execution.                                              *)

\* `matched.map((macro) => macro.resolve(step.meta, env))` calls kvMacro's
\* resolve, and with it env.makeKv
ResolvesKv(step) ==
  \E m \in 1..Len(eng.macros) : Matches(step, m) /\ eng.macros[m].kind = "kv"

\* engine.run(step, base): everything up to `await Promise.all(...)`
Launch(step) ==
  /\ LET x == NewExecution(step)
         err == StepError(step)
         made == IF err = "none" /\ ResolvesKv(step) THEN MakeKv(kv, eng.env)
                 ELSE [stores |-> kv, port |-> 0]
         r == [x EXCEPT !.pc = "resolve", !.matched = Matched(step, 1),
                        !.store = made.port,
                        !.phases = Append(@, "resolve")]
         y == IF err # "none" THEN Finish(x, Rejected(err))
              ELSE IF r.matched = <<>> THEN AfterResolve(r)
              ELSE r
         c == CallHook(made.stores, x, y)
     IN /\ ex' = Append(ex, c.x)
        /\ kv' = c.stores
  /\ UNCHANGED <<hc, pool, br, now, circ, cfg, call, inv, ticks, eng>>

\* engine.run(step, base) once the executions before it have finished
Execute(max, step) ==
  /\ Len(ex) < max
  /\ \A e \in 1..Len(ex) : ex[e].pc = "done"
  /\ Launch(step)

\* engine.run(step, base) while other executions are under way
ExecuteConcurrently(max, step) ==
  /\ Len(ex) < max
  /\ Launch(step)

\* the promise of one macro.resolve(step.meta, env) settles
ResolveSettle(e, j, res) ==
  /\ e \in 1..Len(ex)
  /\ j \in 1..Len(ex[e].matched)
  /\ ex[e].resolves[ex[e].matched[j]] = Pending
  /\ LET x == [ex[e] EXCEPT !.resolves[ex[e].matched[j]] = res,
                            !.settled = Append(@, j)]
         y == IF ex[e].pc # "resolve" THEN x
              ELSE IF PromiseAll(x) = "rejected" THEN Finish(x, res)
              ELSE IF PromiseAll(x) = "resolved" THEN AfterResolve(x)
              ELSE x
         c == CallHook(kv, ex[e], y)
     IN /\ ex' = [ex EXCEPT ![e] = c.x]
        /\ kv' = c.stores
  /\ UNCHANGED <<hc, pool, br, now, circ, cfg, call, inv, ticks, eng>>

\* `await macro.before(ctx)` settles; a throw is outside the try block.  The
\* loop goes on to call the next hook
BeforeSettle(e, beh) ==
  /\ e \in 1..Len(ex)
  /\ ex[e].pc = "before"
  /\ beh \in BeforeChoices(ex[e])
  /\ LET x == HookSettled(ex[e], beh)
         y == IF beh.act = "throw"
              THEN BeforeThrew(x, beh.val)
              ELSE IF beh.act = "set"
              THEN EnterBefore(SetMacroResult(x, beh.val, "before"), x.idx + 1)
              ELSE EnterBefore(x, x.idx + 1)
         c == CallHook(kv, x, y)
     IN /\ ex' = [ex EXCEPT ![e] = c.x]
        /\ kv' = c.stores
  /\ UNCHANGED <<hc, pool, br, now, circ, cfg, call, inv, ticks, eng>>

\* `await step.run(ctx)` settles; set is the value run gave to setMacroResult
RunSettle(e, res, set) ==
  /\ e \in 1..Len(ex)
  /\ ex[e].pc = "run"
  /\ LET x == [ex[e] EXCEPT !.runRes = res]
         y == IF set = "none" THEN x ELSE SetMacroResult(x, set, "run")
         z == IF res.kind = "resolved"
              THEN EnterAfter([y EXCEPT !.result = res.val,
                                        !.phases = Append(@, "after")], 1)
              ELSE Catch(y, res.val, "run")
         c == CallHook(kv, x, z)
     IN /\ ex' = [ex EXCEPT ![e] = c.x]
        /\ kv' = c.stores
  /\ UNCHANGED <<hc, pool, br, now, circ, cfg, call, inv, ticks, eng>>

\* `result = await macro.after(result, ctx)` settles; a throw is caught
AfterSettle(e, beh) ==
  /\ e \in 1..Len(ex)
  /\ ex[e].pc = "after"
  /\ beh \in AfterChoices(ex[e])
  /\ LET x == HookSettled(ex[e], beh)
         y == IF beh.act = "throw" THEN Catch(x, beh.val, "after")
              ELSE IF beh.act = "set"
              THEN EnterAfter(SetMacroResult(x, beh.val, "after"), x.idx + 1)
              ELSE EnterAfter(AfterReturned(x, beh.val), x.idx + 1)
         c == CallHook(kv, x, y)
     IN /\ ex' = [ex EXCEPT ![e] = c.x]
        /\ kv' = c.stores
  /\ UNCHANGED <<hc, pool, br, now, circ, cfg, call, inv, ticks, eng>>

\* `const maybe = await macro.onError(error, ctx)` settles; a throw leaves
\* the catch block
OnErrorSettle(e, beh) ==
  /\ e \in 1..Len(ex)
  /\ ex[e].pc = "onError"
  /\ beh \in OnErrorBehaviours
  /\ LET x == HookSettled(ex[e], beh)
     IN ex' = [ex EXCEPT ![e] =
                 IF beh.act = "throw"
                 THEN Finish(x, Rejected(beh.val))
                 ELSE IF beh.act = "set"
                 THEN EnterOnError(SetMacroResult(x, beh.val, "onError"), x.idx + 1)
                 ELSE IF beh.val # "undefined" THEN Finish(x, Resolved(beh.val))
                 ELSE EnterOnError(x, x.idx + 1)]
  /\ UNCHANGED <<hc, pool, br, now, circ, cfg, call, inv, ticks, kv, eng>>

----------------------------------------------------------------------------
(* One execution on an engine of NMacros macros with arbitrary hooks.       *)

HookSets == {{}, {"before"}, {"after", "onError"}, {"before", "after", "onError"}}

\* validation is on by default; it is switched off on the engines whose
\* macros all have the same hooks
Engines ==
  {g \in [macros : [1..NMacros -> {Macro("generic", h) : h \in HookSets}],
          env : {"stdEnv"}, validate : BOOLEAN] :
     ~g.validate => \A m \in 1..NMacros : g.macros[m] = g.macros[1]}

PlainStep(meta, defect) ==
  [defect |-> defect, meta |-> meta, idemKey |-> "unset", dynKey |-> "unset",
   hasTtl |-> FALSE, ttlMs |-> 0]

Steps ==
  {PlainStep(meta, "none") : meta \in SUBSET (0..NMacros)}
    \cup {PlainStep(1..NMacros, d) : d \in {"noRun", "noName", "policy"}}

ResolveResults == {Resolved("caps")} \cup {Rejected(e) : e \in Errors}

RunResults == {Resolved("v1")} \cup {Rejected(e) : e \in Errors}

InitExec ==
  /\ br = <<>>
  /\ now = 0
  /\ circ = 0
  /\ cfg = NoCfg
  /\ call = <<>>
  /\ inv = <<>>
  /\ ticks = 0
  /\ ex = <<>>
  /\ kv = NoStores
  /\ eng \in Engines
  /\ pool = NoPool
  /\ hc = NoContexts

NextExec ==
  \/ \E step \in Steps : Execute(1, step)
  \/ \E e \in 1..Len(ex) : \E j \in 1..NMacros : \E res \in ResolveResults :
       ResolveSettle(e, j, res)
  \/ \E e \in 1..Len(ex) : \E beh \in BeforeBehaviours : BeforeSettle(e, beh)
  \/ \E e \in 1..Len(ex) : \E res \in RunResults : \E set \in {"none", "v2"} :
       RunSettle(e, res, set)
  \/ \E e \in 1..Len(ex) : \E beh \in AfterBehaviours : AfterSettle(e, beh)
  \/ \E e \in 1..Len(ex) : \E beh \in OnErrorBehaviours : OnErrorSettle(e, beh)

SpecExec == InitExec /\ [][NextExec]_vars

----------------------------------------------------------------------------
(* Executions, one after the other, of steps that declare an idempotency    *)
(* key, on an engine with the kv and the idempotency macro, whose env makes *)
(* a store per execution or hands out a shared one.                         *)

NExec == 2

\* env.makeKv is stdEnv.makeKv, or `() => sharedKv` as in the policy-combo
\* example
KvEnvs == {"stdEnv", "sharedKv"}

IdemEngine(env) ==
  [macros |-> <<Macro("kv", {}), Macro("idem", {"before", "after"})>>,
   env |-> env, validate |-> TRUE]

\* kvMacro.resolve resolves with { kv: port }, idempotencyMacro.resolve with {}
MacroResolves(m) ==
  IF eng.macros[m].kind = "kv" THEN Resolved("kv") ELSE Resolved("caps")

IdemStep(meta, key, hasTtl) ==
  [defect |-> "none", meta |-> meta, idemKey |-> key, dynKey |-> "unset",
   hasTtl |-> hasTtl, ttlMs |-> IF hasTtl THEN 2 ELSE 0]

\* a step run with `idempotencyKey: dyn` in the base context
IdemDynStep(key, dyn) == [IdemStep({1, 2}, key, FALSE) EXCEPT !.dynKey = dyn]

IdemSteps ==
  {IdemStep({1, 2}, "k1", h) : h \in BOOLEAN}
    \cup {IdemStep({1, 2}, "", FALSE), IdemStep({2}, "k1", FALSE)}
    \cup {IdemDynStep("k1", "k2"), IdemDynStep("unset", "k2")}

IdemRunResults ==
  {Resolved(v) : v \in Values \cup {"null", "undefined"}} \cup {Rejected("e1")}

InitIdem ==
  /\ br = <<>>
  /\ now = 0
  /\ circ = 0
  /\ cfg = NoCfg
  /\ call = <<>>
  /\ inv = <<>>
  /\ ticks = 0
  /\ ex = <<>>
  /\ eng \in {IdemEngine(env) : env \in KvEnvs}
  /\ kv = InitialStores(eng.env)
  /\ pool = NoPool
  /\ hc = NoContexts

\* what the resolve of the j-th matched macro of execution e resolves with
ResolveOf(e, j) == MacroResolves(ex[e].matched[j])

\* a holder of port p calls del(key) on a key that has a record
KvDel(p, k) ==
  /\ kv[p][k].present
  /\ kv[p][k].dels < NDels
  /\ kv' = [kv EXCEPT ![p] = KvDelete(@, k)]
  /\ UNCHANGED <<hc, pool, br, now, circ, cfg, call, inv, ticks, ex, eng>>

NextIdem ==
  \/ \E step \in IdemSteps : Execute(NExec, step)
  \/ \E e \in 1..Len(ex) : \E j \in 1..Len(eng.macros) :
       ResolveSettle(e, j, ResolveOf(e, j))
  \/ \E e \in 1..Len(ex) : BeforeSettle(e, IdemBefore(ex[e]))
  \/ \E e \in 1..Len(ex) : \E res \in IdemRunResults : RunSettle(e, res, "none")
  \/ \E e \in 1..Len(ex) : AfterSettle(e, IdemAfter(ex[e]))
  \/ \E p \in 1..Len(kv) : \E k \in KvKeys : KvDel(p, k)
  \/ Tick

SpecIdem == InitIdem /\ [][NextIdem]_vars

(* Executions of one step with an idempotency key that are under way at the *)
(* same time, on one KV store or each on its own, as the env makes them;    *)
(* run resolves with a value.                                               *)

ConcurrentSteps == {IdemStep({1, 2}, "k1", FALSE)}

NextIdemConc ==
  \/ \E step \in ConcurrentSteps : ExecuteConcurrently(NExec, step)
  \/ \E e \in 1..Len(ex) : \E j \in 1..Len(eng.macros) :
       ResolveSettle(e, j, ResolveOf(e, j))
  \/ \E e \in 1..Len(ex) : BeforeSettle(e, IdemBefore(ex[e]))
  \/ \E e \in 1..Len(ex) : \E v \in Values : RunSettle(e, Resolved(v), "none")
  \/ \E e \in 1..Len(ex) : AfterSettle(e, IdemAfter(ex[e]))

SpecIdemConc == InitIdem /\ [][NextIdemConc]_vars

----------------------------------------------------------------------------
(* makePool(factory, destroy, max): acquire, release and drain are async    *)
(* functions over the closure state free, waiters and total.  A step of the *)
(* model is the synchronous run of one of them up to its next await.        *)

MaxPool == 2
NAcquirers == 4
NDrains == 1

\* an acquire that takes capacity whenever total has not passed max
AcquirePath_OneOver(p) ==
  IF Len(p.free) > 0 THEN "idle"
  ELSE IF p.total <= MaxPool THEN "create" ELSE "wait"

\* acquire: `if (free.length) ...; if (total < max) ...; ... waiters.push`
AcquirePath(p) ==
  IF Len(p.free) > 0 THEN "idle"
  ELSE IF p.total < MaxPool THEN "create" ELSE "wait"

\* a release that serves the waiter that came last
NextWaiter_Last(waiters) == Len(waiters)

\* release: `waiters.shift()` takes the waiter at the front
NextWaiter(waiters) == 1

\* the sequence without its k-th element
Without(seq, k) == SubSeq(seq, 1, k - 1) \o SubSeq(seq, k + 1, Len(seq))

\* the promise of acquirer a resolves with instance t
Serve(p, a, t) ==
  [p EXCEPT !.acq[a] = [state |-> "holding", inst |-> t],
            !.served = Append(@, a)]

\* pool.acquire() is called
PoolAcquire ==
  /\ Len(pool.acq) < NAcquirers
  /\ LET a == Len(pool.acq) + 1
         path == AcquirePath(pool)
         p == [pool EXCEPT !.acq = Append(@, [state |-> "new", inst |-> 0])]
     IN pool' =
          IF path = "idle"
          THEN Serve([p EXCEPT !.free = Tail(@)], a, Head(pool.free))
          ELSE IF path = "create"
          THEN [p EXCEPT !.total = @ + 1, !.made = @ + 1,
                         !.acq[a].state = "creating"]
          ELSE [p EXCEPT !.waiters = Append(@, a),
                         !.waited = Append(@, a),
                         !.acq[a].state = "waiting"]
  /\ UNCHANGED <<br, now, circ, cfg, call, inv, ticks, ex, kv, eng, hc>>

\* `return await factory()`: the factory's promise settles
FactorySettle(a, ok) ==
  /\ a \in 1..Len(pool.acq)
  /\ pool.acq[a].state = "creating"
  /\ pool' =
       IF ok
       THEN Serve([pool EXCEPT !.insts = Append(@, [destroys |-> 0, busy |-> FALSE])],
                  a, Len(pool.insts) + 1)
       ELSE [pool EXCEPT !.acq[a].state = "rejected"]
  /\ UNCHANGED <<br, now, circ, cfg, call, inv, ticks, ex, kv, eng, hc>>

\* pool.release(t) is called by the holder of t
PoolRelease(a) ==
  /\ a \in 1..Len(pool.acq)
  /\ pool.acq[a].state = "holding"
  /\ LET t == pool.acq[a].inst
         p == [pool EXCEPT !.acq[a].state = "released"]
         k == NextWaiter(pool.waiters)
     IN pool' =
          IF Len(pool.waiters) > 0
          THEN Serve([p EXCEPT !.waiters = Without(@, k)], pool.waiters[k], t)
          ELSE [p EXCEPT !.free = Append(@, t)]
  /\ UNCHANGED <<br, now, circ, cfg, call, inv, ticks, ex, kv, eng, hc>>

\* drain: one turn of `for (const t of free) await destroy(t)`; the array
\* iterator reads free[i] when it is asked for the next element, and
\* `free.length = 0` follows the end of the loop
DrainNext(p, d) ==
  LET i == p.drains[d].i IN
  IF i <= Len(p.free)
  THEN [p EXCEPT !.drains[d] = [pc |-> "destroying", i |-> i + 1, cur |-> p.free[i]],
                 !.insts[p.free[i]] = [destroys |-> @.destroys + 1, busy |-> TRUE]]
  ELSE [p EXCEPT !.drains[d].pc = "done",
                 !.free = <<>>,
                 !.dropped = @ \cup {p.free[k] : k \in 1..Len(p.free)}]

\* pool.drain() is called
PoolDrain ==
  /\ Len(pool.drains) < NDrains
  /\ pool' = DrainNext([pool EXCEPT !.drains = Append(@, [pc |-> "start", i |-> 1, cur |-> 0])],
                       Len(pool.drains) + 1)
  /\ UNCHANGED <<br, now, circ, cfg, call, inv, ticks, ex, kv, eng, hc>>

\* `await destroy(t)`: the promise settles; a rejection ends drain
DestroySettle(d, ok) ==
  /\ d \in 1..Len(pool.drains)
  /\ pool.drains[d].pc = "destroying"
  /\ LET p == [pool EXCEPT !.insts[pool.drains[d].cur].busy = FALSE]
     IN pool' = IF ok THEN DrainNext(p, d)
                ELSE [p EXCEPT !.drains[d].pc = "failed"]
  /\ UNCHANGED <<br, now, circ, cfg, call, inv, ticks, ex, kv, eng, hc>>

InitPool ==
  /\ br = <<>>
  /\ now = 0
  /\ circ = 0
  /\ cfg = NoCfg
  /\ call = <<>>
  /\ inv = <<>>
  /\ ticks = 0
  /\ ex = <<>>
  /\ kv = NoStores
  /\ eng = NoEngine
  /\ pool = NoPool
  /\ hc = NoContexts

NextPool ==
  \/ PoolAcquire
  \/ \E a \in 1..Len(pool.acq) : \E ok \in BOOLEAN : FactorySettle(a, ok)
  \/ \E a \in 1..Len(pool.acq) : PoolRelease(a)

SpecPool == InitPool /\ [][NextPool]_vars

NextDrain ==
  \/ PoolAcquire
  \/ \E a \in 1..Len(pool.acq) : \E ok \in BOOLEAN : FactorySettle(a, ok)
  \/ \E a \in 1..Len(pool.acq) : PoolRelease(a)
  \/ PoolDrain
  \/ \E d \in 1..Len(pool.drains) : \E ok \in BOOLEAN : DestroySettle(d, ok)

SpecDrain == InitPool /\ [][NextDrain]_vars

----------------------------------------------------------------------------
(* The context helpers.  runStep builds the context of an execution as      *)
(* `{ ...base, ...weave(...) }`; memo and span keep their stores in         *)
(* properties of the context, ctx[MEMO_SYMBOL] and ctx[SPAN_SYMBOL], made   *)
(* by plain assignment on first use.  A store is a reference: 0 stands for  *)
(* an absent property, s > 0 for the s-th Map (or array) created.           *)

NCtx == 2
NSpans == 1
NMemoCalls == 3
NClears == 1
MemoKeys == {"k1", "k2"}

\* a caller-supplied base object without helper state
PlainBase == [memo |-> 0, spans |-> 0]

\* a spread that leaves the symbol-keyed properties behind
SpreadBase_OwnStores(base) == PlainBase

\* `{ ...base, ... }` copies the own enumerable properties of base, the
\* symbol-keyed ones included; weave's result has neither store
SpreadBase(base) == [memo |-> base.memo, spans |-> base.spans]

\* engine.run(step, base): the context of the new execution
NewCtx(h, parent, base) ==
  [h EXCEPT !.ctxs = Append(@, [parent |-> parent,
                                memo |-> SpreadBase(base).memo,
                                spans |-> SpreadBase(base).spans])]

\* getMemoStore: `if (!ctx[MEMO_SYMBOL]) ctx[MEMO_SYMBOL] = new Map()`
GetMemoStore(h, c) ==
  IF h.ctxs[c].memo # 0 THEN h
  ELSE [h EXCEPT !.memos = Append(@, [k \in MemoKeys |-> 0]),
                 !.ctxs[c].memo = Len(h.memos) + 1]

\* getSpanStore: `if (!ctx[SPAN_SYMBOL]) ctx[SPAN_SYMBOL] = []`
GetSpanStore(h, c) ==
  IF h.ctxs[c].spans # 0 THEN h
  ELSE [h EXCEPT !.spans = Append(@, <<>>),
                 !.ctxs[c].spans = Len(h.spans) + 1]

\* engine.run(step, base) with a base that has no helper state
RunTop ==
  /\ Len(hc.ctxs) < NCtx
  /\ hc' = NewCtx(hc, 0, PlainBase)
  /\ UNCHANGED <<br, now, circ, cfg, call, inv, ticks, ex, kv, eng, pool>>

\* createChild: `base = options?.base ?? parentCtx`, then engine.run
CtxChild(c, ownBase) ==
  /\ c \in 1..Len(hc.ctxs)
  /\ Len(hc.ctxs) < NCtx
  /\ hc' = NewCtx(hc, c, IF ownBase THEN PlainBase ELSE hc.ctxs[c])
  /\ UNCHANGED <<br, now, circ, cfg, call, inv, ticks, ex, kv, eng, pool>>

\* ctx.memo(key, fn) up to its first await: `store.has(key)` returns the
\* stored value, otherwise fn is called and awaited.  The value that fn
\* computes in the n-th call of memo is written n
CtxMemoCall(c, key) ==
  /\ c \in 1..Len(hc.ctxs)
  /\ Len(hc.calls) < NMemoCalls
  /\ LET h == GetMemoStore(hc, c)
         s == h.ctxs[c].memo
         hit == h.memos[s][key] # 0
     IN hc' = [h EXCEPT !.calls =
                 Append(@, [ctx |-> c, key |-> key, hit |-> hit,
                            state |-> IF hit THEN "returned" ELSE "pending",
                            val |-> h.memos[s][key]])]
  /\ UNCHANGED <<br, now, circ, cfg, call, inv, ticks, ex, kv, eng, pool>>

\* `const result = await fn()` is over: `store.set(key, result)` on the store
\* memo took when it was called, or fn's rejection leaves memoize
CtxMemoSettle(n, ok) ==
  /\ n \in 1..Len(hc.calls)
  /\ hc.calls[n].state = "pending"
  /\ LET s == hc.ctxs[hc.calls[n].ctx].memo
     IN hc' = IF ok
              THEN [hc EXCEPT !.memos[s][hc.calls[n].key] = n,
                              !.calls[n].state = "returned",
                              !.calls[n].val = n]
              ELSE [hc EXCEPT !.calls[n].state = "threw"]
  /\ UNCHANGED <<br, now, circ, cfg, call, inv, ticks, ex, kv, eng, pool>>

\* clearMemo(ctx, key?): `store.delete(key)`, or `store.clear()` when no key
\* is given (written "")
ClearMemo(c, key) ==
  /\ c \in 1..Len(hc.ctxs)
  /\ hc.clears < NClears
  /\ LET h == GetMemoStore(hc, c)
         s == h.ctxs[c].memo
     IN hc' = [h EXCEPT !.memos[s] = IF key = "" THEN [k \in MemoKeys |-> 0]
                                     ELSE [@ EXCEPT ![key] = 0],
                       !.clears = @ + 1]
  /\ UNCHANGED <<br, now, circ, cfg, call, inv, ticks, ex, kv, eng, pool>>

\* getSpans(ctx): `return getSpanStore(ctx)`
GetSpans(c) ==
  /\ c \in 1..Len(hc.ctxs)
  /\ hc' = GetSpanStore(hc, c)
  /\ UNCHANGED <<br, now, circ, cfg, call, inv, ticks, ex, kv, eng, pool>>

\* ctx.span(name, fn): `spans.push(span)`; the span is written with the
\* context that opened it
CtxSpan(c) ==
  /\ c \in 1..Len(hc.ctxs)
  /\ LET h == GetSpanStore(hc, c)
         s == h.ctxs[c].spans
     IN /\ Len(h.spans[s]) < NSpans
        /\ hc' = [h EXCEPT !.spans[s] = Append(@, c)]
  /\ UNCHANGED <<br, now, circ, cfg, call, inv, ticks, ex, kv, eng, pool>>

InitCtx ==
  /\ br = <<>>
  /\ now = 0
  /\ circ = 0
  /\ cfg = NoCfg
  /\ call = <<>>
  /\ inv = <<>>
  /\ ticks = 0
  /\ ex = <<>>
  /\ kv = NoStores
  /\ eng = NoEngine
  /\ pool = NoPool
  /\ hc = NoContexts

NextCtx ==
  \/ RunTop
  \/ \E c \in 1..Len(hc.ctxs) : \E own \in BOOLEAN : CtxChild(c, own)
  \/ \E c \in 1..Len(hc.ctxs) : \E key \in MemoKeys : CtxMemoCall(c, key)
  \/ \E n \in 1..Len(hc.calls) : \E ok \in BOOLEAN : CtxMemoSettle(n, ok)
  \/ \E c \in 1..Len(hc.ctxs) : \E key \in MemoKeys \cup {""} : ClearMemo(c, key)
  \/ \E c \in 1..Len(hc.ctxs) : CtxSpan(c)
  \/ \E c \in 1..Len(hc.ctxs) : GetSpans(c)

SpecCtx == InitCtx /\ [][NextCtx]_vars

----------------------------------------------------------------------------
(* The resolve phase of one execution whose matched macros contribute       *)
(* overlapping capability sets.                                             *)

MergeEngine ==
  [macros |-> [m \in 1..NMacros |-> Macro("generic", {})], env |-> "stdEnv",
   validate |-> TRUE]

MergeResults ==
  {Resolved(id) : id \in {"undefined", "caps", "kv", "lease.db", "kv+lease.db",
                          "kv+lease.db+lock"}}
    \cup {Rejected("e1")}

InitMerge ==
  /\ br = <<>>
  /\ now = 0
  /\ circ = 0
  /\ cfg = NoCfg
  /\ call = <<>>
  /\ inv = <<>>
  /\ ticks = 0
  /\ ex = <<>>
  /\ kv = NoStores
  /\ eng = MergeEngine
  /\ pool = NoPool
  /\ hc = NoContexts

NextMerge ==
  \/ \E meta \in SUBSET (1..NMacros) : Execute(1, PlainStep(meta, "none"))
  \/ \E e \in 1..Len(ex) : \E j \in 1..NMacros : \E res \in MergeResults :
       ResolveSettle(e, j, res)

SpecMerge == InitMerge /\ [][NextMerge]_vars

----------------------------------------------------------------------------
(* Initial states.                                                          *)

InitBracket ==
  /\ br = [i \in Brackets |-> BracketIdle]
  /\ now = 0
  /\ circ = 0
  /\ cfg = NoCfg
  /\ call = <<>>
  /\ inv = <<>>
  /\ ticks = 0
  /\ ex = <<>>
  /\ kv = NoStores
  /\ eng = NoEngine
  /\ pool = NoPool
  /\ hc = NoContexts

SpecBracket == InitBracket /\ [][NextBracket]_vars

----------------------------------------------------------------------------
(* C1: whenever acquire resolved, release has been invoked exactly once by  *)
(* the time bracket settles, whatever use and finalizer did.                *)
C1_ReleaseExactlyOnce ==
  \A i \in Brackets :
    (br[i].pc = "done" /\ Len(br[i].calls) > 1) => br[i].released = 1

(* C13: when acquire resolved, bracket settles exactly as use did, with its  *)
(* value or with its error, whether or not finalizer or release rejected;   *)
(* when use and finalizer both reject, the caller sees the error of use.    *)
C13_UseOutcomeWins ==
  \A i \in Brackets :
    /\ (br[i].pc = "done" /\ Len(br[i].calls) > 1) =>
         br[i].useRes # Pending /\ br[i].outcome = br[i].useRes
    /\ (br[i].pc # "done") => br[i].outcome = Pending

C13_Witness ==
  \E i \in Brackets :
    /\ br[i].pc = "done"
    /\ br[i].useRes = Rejected("e1")
    /\ br[i].cleanup = <<<<"finalizer", FALSE>>>>
    /\ br[i].outcome = Rejected("e1")

\* the calls bracket has made, given how far the cleanup got
ExpectedCalls(b) ==
  <<"acquire", "use">> \o (IF b.hasFinalizer THEN <<"finalizer">> ELSE <<>>)
    \o <<"release">>

\* seq is the beginning of full
IsPrefix(seq, full) ==
  Len(seq) <= Len(full) /\ \A k \in 1..Len(seq) : seq[k] = full[k]

(* C14: bracket invokes acquire, use, finalizer (if supplied) and release   *)
(* in that order, each only after the previous one has settled, and has     *)
(* invoked all of them when it settles; when acquire rejects it rejects     *)
(* with that error and invokes none of use, finalizer, release.             *)
C14_CallOrder ==
  \A i \in Brackets :
    /\ IsPrefix(br[i].calls, ExpectedCalls(br[i]))
    /\ br[i].pc \notin {"idle", "done"} => br[i].calls[Len(br[i].calls)] = br[i].pc
    /\ br[i].pc = "done" =>
         \/ br[i].calls = <<"acquire">> /\ br[i].outcome.kind = "rejected"
         \/ br[i].calls = ExpectedCalls(br[i])

----------------------------------------------------------------------------
(* Claims about the policy weaver.                                          *)

CountIn(seq, x) == Cardinality({k \in 1..Len(seq) : seq[k] = x})

Woven(kind) == LayerOf(cfg, kind) > 0

(* C8: with circuit, log, retry and timeout all configured, a woven method  *)
(* of http, kv, db or queue is timeout(retry(log(circuit(fn)))): the        *)
(* timeout is entered once, first, and decides the caller's outcome; every  *)
(* attempt of the retry loop enters log, then the circuit check, and the    *)
(* underlying function is invoked only straight after a circuit check;      *)
(* every settled attempt has its own debug or error log entry.              *)
C8_PortWrapperOrder ==
  (AllConfigured(cfg) /\ ~cfg.lease /\ cfg.family \in WovenPorts) =>
    \A i \in 1..Len(call) :
      LET c == call[i]
          tr == c.trace
      IN  /\ tr[1] = "timeout" /\ CountIn(tr, "timeout") = 1
          /\ \A k \in 1..Len(tr) :
               /\ tr[k] = "retry" => tr[k - 1] \in {"timeout", "circuit", "fn"}
               /\ tr[k] = "log" => tr[k - 1] = "retry"
               /\ tr[k] = "circuit" => tr[k - 1] = "log"
               /\ tr[k] = "fn" => tr[k - 1] = "circuit"
          /\ CountIn(tr, "log") = CountIn(tr, "retry")
          /\ CountIn(tr, "circuit") = CountIn(tr, "retry")
          /\ CountIn(c.logs, LogLine("debug", "ok")) + CountIn(c.logs, LogLine("error", "err"))
               = Len(c.attemptRes)
          /\ c.timer = "fired" => c.caller = Rejected("effect-timeout")
          /\ c.timer = "cleared" => c.caller = c.retryRes /\ c.caller # Pending
          /\ c.timer = "armed" => c.caller = Pending

\* a kv call whose first attempt failed and was logged, and whose second
\* attempt has passed the circuit check and invoked the underlying method
C8_Witness ==
  /\ AllConfigured(cfg) /\ cfg.family = "kv"
  /\ \E i \in 1..Len(call) :
       /\ call[i].trace = <<"timeout", "retry", "log", "circuit", "fn",
                            "retry", "log", "circuit", "fn">>
       /\ CountIn(call[i].logs, LogLine("error", "err")) = 1

(* C10: a method woven with retry {times: n} makes at most n+1 attempts per *)
(* logical call, returns the result of the first successful attempt and     *)
(* makes no attempt after it, and rejects only after n+1 failed attempts,   *)
(* with the error of the last one.                                          *)
C10_RetryAttempts ==
  Woven("retry") =>
    \A i \in 1..Len(call) :
      LET c == call[i]
          a == c.attemptRes
          n == cfg.times
      IN  /\ CountIn(c.trace, "retry") <= n + 1
          /\ c.fnCalls <= n + 1
          /\ Len(a) <= CountIn(c.trace, "retry")
          /\ \A k \in 1..Len(a) :
               a[k].kind = "resolved" =>
                 /\ k = Len(a)
                 /\ CountIn(c.trace, "retry") = k
                 /\ c.retryRes = a[k]
          /\ c.retryRes.kind = "resolved" => c.retryRes = a[Len(a)]
          /\ c.retryRes.kind = "rejected" =>
               /\ Len(a) = n + 1
               /\ \A k \in 1..Len(a) : a[k].kind = "rejected"
               /\ c.retryRes = a[n + 1]

\* three failed attempts with times = 2: the loop rejects with the last error,
\* which differs from the first
C10_Witness ==
  /\ Woven("retry") /\ cfg.times = 2
  /\ \E i \in 1..Len(call) :
       /\ Len(call[i].attemptRes) = 3
       /\ call[i].attemptRes[1] = Rejected("e1")
       /\ call[i].retryRes = Rejected("e2")

(* C28: the retry wrapper waits only between attempts: a logical call that *)
(* made k attempts has waited exactly k-1 times when the retry loop ends,   *)
(* and no wait follows the final failed attempt.                            *)
C28_WaitsBetweenAttempts ==
  Woven("retry") =>
    \A i \in 1..Len(call) :
      call[i].retryRes # Pending =>
        Len(call[i].delays) = Len(call[i].attemptRes) - 1

(* C29: with retry.jitter every retry delay, of port calls and of lease     *)
(* acquires alike, is withJitter(delayMs), which lies in [0.5 * delayMs,    *)
(* 1.5 * delayMs] for every delayMs >= 0 and every draw r in [0, 1)         *)
(* (delayMs = 10 and r = 0 give 5); without jitter it is delayMs.           *)
MaxJitterDelay == 12

C29_JitterRange ==
  /\ WithJitter(10, 0) = 5
  /\ \A d \in 0..MaxJitterDelay : \A k \in 0..(JitterGrain - 1) :
       2 * WithJitter(d, k) >= d /\ 2 * WithJitter(d, k) <= 3 * d
  /\ \A i \in 1..Len(call) : \A k \in 1..Len(call[i].delays) :
       LET d == call[i].delays[k] IN
       IF cfg.jitter
       THEN /\ d = WithJitter(cfg.delayMs, cfg.rand)
            /\ 2 * d >= cfg.delayMs /\ 2 * d <= 3 * cfg.delayMs
       ELSE d = cfg.delayMs

\* a lease acquire with delayMs = 2 and a draw of 0 failed once; its retry
\* waited less than delayMs, and the call settled after the retry
C29_Witness ==
  /\ cfg.lease /\ cfg.jitter /\ cfg.delayMs = 2 /\ cfg.rand = 0
  /\ \E i \in 1..Len(call) :
       /\ Len(call[i].delays) = 1 /\ call[i].delays[1] < cfg.delayMs
       /\ Len(call[i].attemptRes) = 2
       /\ call[i].retryRes # Pending

\* the calls of which an invocation settles in this step
SettlingNow(j) == inv[j].res = Pending /\ inv'[j].res # Pending

C9_Checks ==
  \A i \in 1..Len(call) :
    LET c == call[i] IN
    /\ \A k \in 1..Len(c.checks) :
         LET ch == c.checks[k] IN
         /\ ch.t < ch.openUntil =>
              ~ch.passed /\ c.circOut[k] = Rejected("circuit-open")
         /\ ch.t >= ch.openUntil => ch.passed
    /\ c.fnCalls =
         Cardinality({k \in 1..Len(c.checks) : c.checks[k].passed})

C9_Updates ==
  \A j \in 1..Len(inv) :
    SettlingNow(j) =>
      LET r == inv'[j].res
          c == call'[inv[j].call]
      IN  /\ r.kind = "resolved" => circ' = 0
          /\ r.kind = "rejected" =>
               circ' = now + (IF cfg.hasHalfOpen THEN cfg.halfOpenAfterMs
                              ELSE 30000)
          /\ c.circOut[Len(c.circOut)] = r

(* C9: a call that reaches the circuit wrapper while now < openUntil is     *)
(* rejected with circuit-open and the wrapped function is not invoked; a    *)
(* call that reaches it once now >= openUntil is passed through; when the   *)
(* wrapped function settles, openUntil becomes 0 on success and the failure *)
(* time plus halfOpenAfterMs (default 30000) on failure, and the wrapper    *)
(* settles as the wrapped function did.                                     *)
C9_CircuitWrapper == [](Woven("circuit") => C9_Checks) /\ [][C9_Updates]_vars

\* a failure tripped the breaker, a call inside the cooldown was rejected
\* and its retry, made once the cooldown had elapsed, was passed through
C9_Witness ==
  \E i \in 1..Len(call) :
    LET ch == call[i].checks IN
    /\ Len(ch) = 2
    /\ ch[1].openUntil > 0 /\ ~ch[1].passed
    /\ ch[2].openUntil > 0 /\ ch[2].t >= ch[2].openUntil /\ ch[2].passed

\* the invocations of the underlying function made by logical call i
InvsOf(i) == SelectSeq(inv, LAMBDA r : r.call = i)

\* what the function wrapped by the timeout has settled with (Pending: not yet)
WrappedOutcome(i) ==
  IF Woven("retry") THEN call[i].retryRes
  ELSE IF Woven("circuit")
       THEN (IF Len(call[i].circOut) = 0 THEN Pending ELSE call[i].circOut[1])
       ELSE InvsOf(i)[1].res

(* C11 as stated: a port method woven with timeout.ms is settled by the     *)
(* time ms have passed since the call started.                              *)
C11_AsStated ==
  Woven("timeout") =>
    \A i \in 1..Len(call) :
      /\ call[i].caller = Pending => now <= call[i].startedAt + cfg.timeoutMs
      /\ call[i].caller # Pending =>
           call[i].settledAt <= call[i].startedAt + cfg.timeoutMs

(* C11: a port method woven with timeout.ms has one timer for the whole     *)
(* logical call, armed when the call starts and due ms later.  The call     *)
(* settles with the outcome of the wrapped call (retry loop included) when  *)
(* that settles before the timer's callback has run, and with               *)
(* effect-timeout when the callback runs: once the timer has counted ms,    *)
(* which Date.now() may show as one millisecond less, or later; the retry   *)
(* loop may still be under way then.                                        *)
C11_TimeoutBound ==
  Woven("timeout") =>
    \A i \in 1..Len(call) :
      /\ CountIn(call[i].trace, "timeout") = 1 /\ call[i].trace[1] = "timeout"
      /\ call[i].deadline = call[i].startedAt + cfg.timeoutMs
      /\ call[i].caller = Pending =>
           /\ call[i].timer = "armed"
           /\ WrappedOutcome(i) = Pending
      /\ call[i].caller # Pending =>
           /\ call[i].timer \in {"cleared", "fired"}
           /\ call[i].timer = "cleared" => call[i].caller = WrappedOutcome(i)
           /\ call[i].timer = "fired" =>
                /\ call[i].caller = Rejected("effect-timeout")
                /\ TimerDue(call[i].settledAt,
                            call[i].startedAt + cfg.timeoutMs)

C11_Witness ==
  /\ Woven("timeout") /\ Woven("retry")
  /\ \E i \in 1..Len(call) :
       /\ call[i].caller = Rejected("effect-timeout")
       /\ Len(call[i].attemptRes) = 1
       /\ call[i].retryRes = Pending
       /\ call[i].state = "waiting"
       /\ call[i].fnCalls = 2

\* the entries of the given level in the log of call i
LogCount(i, level) ==
  Cardinality({k \in 1..Len(call[i].logs) : call[i].logs[k][1] = level})

\* the underlying function failed on its first invocation by call i and
\* succeeded on its second
FailsThenSucceeds(i) ==
  /\ Len(InvsOf(i)) >= 2
  /\ InvsOf(i)[1].res.kind = "rejected"
  /\ InvsOf(i)[2].res.kind = "resolved"

\* one retry, two invocations, one error and one debug entry, the circuit
\* tripped by the failure and reset by the success
OneRetry(i) ==
  /\ call[i].caller = InvsOf(i)[2].res
  /\ call[i].fnCalls = 2
  /\ call[i].attemptRes = <<InvsOf(i)[1].res, InvsOf(i)[2].res>>
  /\ LogCount(i, "error") = 1 /\ LogCount(i, "debug") = 1
  /\ call[i].circSet = <<InvsOf(i)[1].at + Cooldown(cfg), 0>>

\* the statement of C15 as the specification words it: with all four
\* policies, a failure followed by a success is always one retry
C15_AsStated ==
  AllConfigured(cfg) =>
    \A i \in 1..Len(call) : FailsThenSucceeds(i) => OneRetry(i)

(* C15: with circuit, log, retry (times >= 1) and timeout configured, when  *)
(* the underlying call fails on its first invocation and succeeds on its    *)
(* second, no retry attempt is refused by the open circuit (the cooldown    *)
(* is over when the sleep ends) and the call settles before the timeout     *)
(* fires: the call succeeds after exactly one retry and two invocations,    *)
(* with exactly one                                                         *)
(* error and one debug log entry, and the circuit is tripped by the failure *)
(* and reset to 0 by the success.                                           *)
C15_FailOnceThenSucceed ==
  AllConfigured(cfg) =>
    \A i \in 1..Len(call) :
      (/\ FailsThenSucceeds(i)
       /\ \A k \in 1..Len(call[i].checks) : call[i].checks[k].passed
       /\ call[i].timer = "cleared") => OneRetry(i)

C15_Witness ==
  /\ AllConfigured(cfg) /\ cfg.family = "db"
  /\ \E i \in 1..Len(call) :
       /\ FailsThenSucceeds(i)
       /\ call[i].caller = Resolved("v1")
       /\ call[i].logs = <<LogLine("warn", "circuit-trip"), LogLine("error", "err"),
                           LogLine("debug", "ok")>>
       /\ call[i].circSet = <<0, 0>>
       /\ InvsOf(i)[2].at = 1

(* C16: with circuit and retry both configured, the first failed attempt of *)
(* a logical call trips the breaker, and every retry attempt of that call   *)
(* made before the cooldown has passed is rejected with circuit-open        *)
(* without invoking the underlying function.                                *)
C16_RetriesSurfaceCircuitOpen ==
  (Woven("circuit") /\ Woven("retry")) =>
    \A i \in 1..Len(call) :
      (/\ Len(call[i].checks) >= 1 /\ call[i].checks[1].passed
       /\ Len(InvsOf(i)) >= 1 /\ InvsOf(i)[1].res.kind = "rejected")
      => LET t == InvsOf(i)[1].at IN
         /\ call[i].circSet[1] = t + Cooldown(cfg)
         /\ \A k \in 2..Len(call[i].checks) :
              call[i].checks[k].t < t + Cooldown(cfg) =>
                /\ ~call[i].checks[k].passed
                /\ call[i].circOut[k] = Rejected("circuit-open")
         /\ call[i].fnCalls =
              Cardinality({k \in 1..Len(call[i].checks) :
                             call[i].checks[k].passed})

\* the calls that failed: call j's underlying invocation was rejected at t
FailedAt(j) == inv[j].res.kind = "rejected"

(* C17: with concurrent calls sharing one circuit state, once a call has    *)
(* failed at time t every call that starts in (t, t + halfOpenAfterMs) is   *)
(* rejected with circuit-open, whatever calls that started before the       *)
(* failure do afterwards.                                                   *)
C17_NoStaleReset ==
  Woven("circuit") =>
    \A j \in 1..Len(inv) : \A i \in 1..Len(call) :
      (/\ FailedAt(j)
       /\ call[i].startedAt > inv[j].at
       /\ call[i].startedAt < inv[j].at + Cooldown(cfg)
       /\ Len(call[i].checks) >= 1)
      => /\ ~call[i].checks[1].passed
         /\ call[i].circOut[1] = Rejected("circuit-open")

\* call i belongs to an execution later than the one whose invocation j
\* failed, and starts within the cooldown of that failure
LaterWithinCooldown(j, i) ==
  /\ FailedAt(j)
  /\ ExecOf(i) > ExecOf(inv[j].call)
  /\ call[i].startedAt < inv[j].at + Cooldown(cfg)
  /\ Len(call[i].checks) >= 1

RejectedOpen(i) ==
  /\ ~call[i].checks[1].passed
  /\ call[i].circOut[1] = Rejected("circuit-open")
  /\ call[i].fnCalls = 0

\* the statement of C18 as the specification words it: without a provider a
\* failure in one execution opens the circuit for a later execution
C18_AsStated ==
  \A j \in 1..Len(inv) : \A i \in 1..Len(call) :
    LaterWithinCooldown(j, i) => RejectedOpen(i)

(* C18: when the environment supplies no circuit provider, every execution  *)
(* weaves a fresh circuit state with openUntil = 0: the first call of an    *)
(* execution passes the breaker and invokes the underlying function, also   *)
(* within the cooldown of a failure of an earlier execution.                *)
C18_FreshStatePerRun ==
  \A e \in 1..Len(ex) :
    LET i == ex[e].firstCall IN
    (i <= Len(call) /\ ExecOf(i) = e) =>
      /\ call[i].checks[1].openUntil = 0
      /\ call[i].checks[1].passed
      /\ call[i].fnCalls = 1

C18_Witness ==
  \E j \in 1..Len(inv) : \E i \in 1..Len(call) :
    /\ LaterWithinCooldown(j, i)
    /\ call[i].startedAt > inv[j].at
    /\ i = ex[ExecOf(i)].firstCall
    /\ call[i].checks[1].passed
    /\ call[i].caller = Resolved("v1")

(* C19: when env exposes makeCircuit, circuit state is keyed by circuit     *)
(* name and persists across executions: after a failure under circuit N in  *)
(* one execution, a call under N in a later execution that starts within    *)
(* the cooldown is rejected with circuit-open.                              *)
C19_PersistsAcrossRuns ==
  \A j \in 1..Len(inv) : \A i \in 1..Len(call) :
    LaterWithinCooldown(j, i) =>
      /\ call[i].checks[1].openUntil >= inv[j].at + Cooldown(cfg)
      /\ RejectedOpen(i)

\* a lease opener woven with acquireMs, circuit, log and retry
AcquireAllConfigured ==
  cfg.lease /\ cfg.acquireMs > 0 /\ cfg.circuit /\ cfg.log /\ cfg.retry

\* the attempts of call record c that the circuit let through, in order: the
\* k-th of them made the k-th invocation of the acquire
PassedAttempts(c) ==
  SelectSeq([a \in 1..Len(c.checks) |-> a], LAMBDA a : c.checks[a].passed)

(* C20 as stated: a lease opener is retry(log(circuit(acquire-timeout(      *)
(* acquire)))) and every attempt of the retry loop arms its own acquireMs   *)
(* timer and invokes the acquire; an attempt that ends in acquire-timeout   *)
(* is a failure for the circuit, is logged as an error and is retried;      *)
(* timeout.ms is never applied.                                             *)
C20_AsStated ==
  AcquireAllConfigured =>
    \A i \in 1..Len(call) :
      LET c == call[i]
          tr == c.trace
          I == InvsOf(i)
      IN  /\ tr[1] = "retry"
          /\ \A k \in 1..Len(tr) :
               /\ tr[k] = "retry" => (k = 1 \/ tr[k - 1] = "fn")
               /\ tr[k] = "log" => tr[k - 1] = "retry"
               /\ tr[k] = "circuit" => tr[k - 1] = "log"
               /\ tr[k] = "acquireTimeout" => tr[k - 1] = "circuit"
               /\ tr[k] = "fn" => tr[k - 1] = "acquireTimeout"
          /\ CountIn(tr, "timeout") = 0 /\ c.timer = "none"
          /\ c.caller # Rejected("effect-timeout")
          /\ Len(I) = CountIn(tr, "retry")
          /\ \A k \in 1..Len(I) : I[k].timer # "none"

(* C20: a lease opener is retry(log(circuit(acquire-timeout(acquire)))):    *)
(* every attempt of the retry loop enters log and circuit in that order.    *)
(* An attempt made while the circuit is open is rejected there with         *)
(* circuit-open: it arms no timer and does not invoke the acquire; it is    *)
(* logged as an error and retried like any failure.  Every attempt the      *)
(* circuit lets through enters acquire-timeout, arms its own acquireMs      *)
(* timer and invokes the acquire; when it ends in acquire-timeout it is a   *)
(* failure for the circuit (openUntil becomes the time the timer fired plus *)
(* the cooldown), is logged as an error and is retried while retries are    *)
(* left.  timeout.ms is never applied, so the caller never receives         *)
(* effect-timeout.                                                          *)
C20_AcquireWrappers ==
  AcquireAllConfigured =>
    \A i \in 1..Len(call) :
      LET c == call[i]
          tr == c.trace
          I == InvsOf(i)
          P == PassedAttempts(c)
      IN  /\ tr[1] = "retry"
          /\ \A k \in 1..Len(tr) :
               /\ tr[k] = "retry" => (k = 1 \/ tr[k - 1] \in {"fn", "circuit"})
               /\ tr[k] = "log" => tr[k - 1] = "retry"
               /\ tr[k] = "circuit" => tr[k - 1] = "log"
               /\ tr[k] = "acquireTimeout" => tr[k - 1] = "circuit"
               /\ tr[k] = "fn" => tr[k - 1] = "acquireTimeout"
          /\ CountIn(tr, "timeout") = 0 /\ c.timer = "none"
          /\ c.caller # Rejected("effect-timeout")
          /\ Len(c.checks) = CountIn(tr, "retry")
          /\ Len(I) = Len(P) /\ Len(I) = CountIn(tr, "acquireTimeout")
          /\ \A a \in 1..Len(c.checks) :
               /\ c.checks[a].passed = ~CircuitOpen(c.checks[a].t,
                                                   c.checks[a].openUntil)
               /\ ~c.checks[a].passed =>
                    /\ c.circOut[a] = Rejected("circuit-open")
                    /\ c.attemptRes[a] = Rejected("circuit-open")
                    /\ a <= cfg.times =>
                         (c.caller = Pending \/ Len(c.checks) > a)
          /\ \A k \in 1..Len(I) :
               /\ I[k].timer # "none"
               /\ I[k].deadline = c.checks[P[k]].t + cfg.acquireMs
               /\ I[k].timedOut =>
                    /\ I[k].timer = "fired"
                    /\ c.circOut[P[k]] = Rejected("acquire-timeout")
                    /\ TimerDue(I[k].firedAt, I[k].deadline)
                    /\ c.circSet[k] = I[k].firedAt + Cooldown(cfg)
                    /\ c.attemptRes[P[k]] = Rejected("acquire-timeout")
                    /\ P[k] <= cfg.times =>
                         (c.caller = Pending \/ Len(c.checks) > P[k])
          /\ CountIn(c.logs, LogLine("error", "err")) =
               Cardinality({k \in 1..Len(c.attemptRes) :
                              c.attemptRes[k].kind = "rejected"})

\* with the default cooldown: the first attempt timed out at 1 and tripped
\* the circuit; the retry was refused by the open circuit, with no timer and
\* no acquire, and the caller got circuit-open
C20_Witness ==
  /\ AcquireAllConfigured /\ ~cfg.hasHalfOpen /\ cfg.times = 1
  /\ \E i \in 1..Len(call) :
       /\ Len(InvsOf(i)) = 1
       /\ InvsOf(i)[1].timedOut /\ InvsOf(i)[1].deadline = 2
       /\ InvsOf(i)[1].firedAt = 1
       /\ call[i].circSet = <<1 + DefaultHalfOpenAfterMs>>
       /\ Len(call[i].checks) = 2 /\ ~call[i].checks[2].passed
       /\ call[i].attemptRes =
            <<Rejected("acquire-timeout"), Rejected("circuit-open")>>
       /\ call[i].logs = <<LogLine("warn", "circuit-trip"), LogLine("error", "err"),
                           LogLine("warn", "circuit-open"), LogLine("error", "err")>>
       /\ call[i].caller = Rejected("circuit-open")

(* C21: weave applies no wrapper to lease.tx: one call of the woven         *)
(* lease.tx(fn) invokes the macro-supplied tx exactly once with fn and       *)
(* settles with the outcome of that invocation.                              *)
C21_TxPassThrough ==
  \A i \in 1..Len(call) :
    /\ call[i].fnCalls = 1
    /\ Len(InvsOf(i)) = 1
    /\ call[i].caller = InvsOf(i)[1].res

(* C2: when the acquireMs timer of a woven lease opener fires before the    *)
(* underlying acquire has resolved, that attempt is rejected with           *)
(* acquire-timeout (which the caller receives when no retry is configured), *)
(* and once the underlying acquire has resolved with a Releasable, release  *)
(* has been invoked on it exactly once by the wrapper; this holds for every *)
(* timed-out attempt of a retry loop.                                       *)
C2_LateAcquireReleased ==
  \A j \in 1..Len(inv) :
    /\ inv[j].released <= 1
    /\ inv[j].timedOut =>
         /\ inv[j].race = Rejected("acquire-timeout")
         /\ ~Woven("retry") =>
              call[inv[j].call].caller = Rejected("acquire-timeout")
         /\ (inv[j].res.kind = "resolved" /\ inv[j].releasable) =>
              inv[j].released = 1

\* two attempts of one retried acquire timed out, both acquires resolved
\* late with a Releasable and both resources have been released
C2_Witness ==
  /\ Woven("retry")
  /\ \E j1, j2 \in 1..Len(inv) :
       /\ j1 < j2 /\ inv[j1].call = inv[j2].call
       /\ \A j \in {j1, j2} :
            /\ inv[j].timedOut /\ inv[j].res.kind = "resolved"
            /\ inv[j].releasable /\ inv[j].released = 1

----------------------------------------------------------------------------
(* Claims about the executor and the idempotency macro.                     *)

\* execution e + 1 ran entirely within the TTL of what execution e stored
WithinTtl(e) ==
  IdemTtl(ex[e].step) = 0 \/ ex[e + 1].doneAt <= ex[e].storedAt + IdemTtl(ex[e].step)

\* executions e and f were given ports over the same store, and nobody has
\* called del on the key of e's step
ShareStore(e, f) ==
  /\ ex[e].store # 0 /\ ex[e].store = ex[f].store
  /\ kv[ex[e].store][IdemStoreKey(IdemKey(ex[e].step))].dels = 0

(* C3: of two consecutive executions of one step that declares a non-empty  *)
(* idempotency key, on one KV store (from which the key has not been        *)
(* deleted), the second being within the TTL of the first: the first        *)
(* invokes run once (its result is stored under the key), the second does   *)
(* not invoke run and returns the value the first's run resolved with.      *)
C3_IdempotentReplay ==
  \A e \in 1..(Len(ex) - 1) :
    ( /\ ex[e].pc = "done" /\ ex[e + 1].pc = "done"
      /\ ex[e + 1].step = ex[e].step
      /\ IdemActive(ex[e])
      /\ ShareStore(e, e + 1)
      /\ ex[e].runRes.kind = "resolved"
      /\ WithinTtl(e) )
    => /\ ex[e].runs = 1
       /\ ex[e + 1].runs = 0
       /\ ex[e + 1].outcome = Resolved(ex[e].runRes.val)

(* C30: when the base context supplies idempotencyKey, the entry the        *)
(* idempotency macro reads and writes is idem:<idempotencyKey>, whatever    *)
(* meta.idempotency.key says: an execution with a dynamic key whose run     *)
(* resolved leaves its result under idem:<idempotencyKey> (until the entry  *)
(* expires, is deleted or is written by a later execution).                 *)
C30_DynamicKeyFirst ==
  \A e \in 1..Len(ex) :
    ( /\ ex[e].pc = "done"
      /\ ex[e].step.dynKey \notin {"unset", ""}
      /\ HasKv(ex[e])
      /\ ex[e].runs = 1
      /\ ex[e].outcome.kind = "resolved"
      /\ now <= ex[e].storedAt + IdemTtl(ex[e].step)
      /\ \A f \in (e + 1)..Len(ex) : ex[f].runs = 0
      /\ kv[ex[e].store][IdemStoreKey(ex[e].step.dynKey)].dels = 0 )
    => /\ kv[ex[e].store][IdemStoreKey(ex[e].step.dynKey)].present
       /\ kv[ex[e].store][IdemStoreKey(ex[e].step.dynKey)].value = ex[e].runRes.val

\* the acquirers that hold an instance
Holders == {a \in 1..Len(pool.acq) : pool.acq[a].state = "holding"}

\* the acquirers that had to wait and have been served, in the order served
ServedWaiters ==
  SelectSeq(pool.served, LAMBDA a : \E k \in 1..Len(pool.waited) : pool.waited[k] = a)

(* C31: acquire takes an idle instance when there is one, creates one while *)
(* capacity remains and waits otherwise; the waiters are served by the      *)
(* releases in the order in which they started to wait.                     *)
C31_FifoService ==
  /\ ServedWaiters = SubSeq(pool.waited, 1, Len(ServedWaiters))
  /\ pool.waiters = SubSeq(pool.waited, Len(ServedWaiters) + 1, Len(pool.waited))
  /\ Len(pool.waiters) > 0 => Len(pool.free) = 0 /\ pool.total >= MaxPool
  /\ \A k \in 1..Len(pool.waiters) : pool.acq[pool.waiters[k]].state = "waiting"

\* two acquirers waited and both have been served by releases
C31_Witness ==
  /\ Len(pool.waited) = 2
  /\ ServedWaiters = pool.waited
  /\ pool.waiters = <<>>

(* C32: the factory is called at most max times, and the instances held     *)
(* plus the idle ones are never more than max.                              *)
C32_Bounded ==
  /\ pool.made <= MaxPool
  /\ Len(pool.insts) <= MaxPool
  /\ Cardinality(Holders) + Len(pool.free) <= MaxPool
  /\ \A a, b \in Holders : a # b => pool.acq[a].inst # pool.acq[b].inst
  /\ \A a \in Holders : \A k \in 1..Len(pool.free) : pool.free[k] # pool.acq[a].inst

\* the pool is full, an acquirer had to wait, and after releases max
\* instances are held or idle
C32_Witness ==
  /\ pool.made = MaxPool
  /\ Len(pool.waited) > 0
  /\ Len(pool.free) > 0
  /\ Cardinality(Holders) + Len(pool.free) = MaxPool


\* no factory call and no destroy call is in flight
PoolQuiet ==
  /\ \A a \in 1..Len(pool.acq) : pool.acq[a].state # "creating"
  /\ \A d \in 1..Len(pool.drains) : pool.drains[d].pc # "destroying"

(* C39: once the calls made so far have run, the creation counter equals    *)
(* the number of instances that are idle or held.                           *)
C39_CounterMatchesLive ==
  PoolQuiet => pool.total = Cardinality(Holders) + Len(pool.free)

(* C40: drain destroys no instance twice, drops no idle instance that it    *)
(* did not destroy, and no instance that drain has destroyed or is          *)
(* destroying is in the hands of an acquirer.                               *)
C40_DrainSafe ==
  /\ \A t \in 1..Len(pool.insts) : pool.insts[t].destroys <= 1
  /\ \A t \in pool.dropped : pool.insts[t].destroys >= 1
  /\ \A a \in Holders : pool.insts[pool.acq[a].inst].destroys = 0

\* the entries the log wrapper wrote for call i
LogEntries(i) ==
  SelectSeq(call[i].logs, LAMBDA e : e[1] \in {"debug", "error"})

\* an attempt of call i has entered the log wrapper and has not settled
AttemptInFlight(i) ==
  \E j \in 1..Len(inv) :
    inv[j].call = i /\ inv[j].res = Pending /\ ~inv[j].timedOut

\* the attempts of call i that have settled in the log wrapper
SettledAttempts(i) ==
  CountIn(call[i].trace, "log") - (IF AttemptInFlight(i) THEN 1 ELSE 0)

\* C33 as stated: one log entry per attempt, whatever else is configured
C33_AsStated ==
  \A i \in 1..Len(call) : Len(call[i].logs) = SettledAttempts(i)

(* C33: with a logger, every attempt made through a woven port method or a  *)
(* woven lease acquire makes the log wrapper emit exactly one entry, debug  *)
(* "<family>.<method> ok" when the attempt resolved and error               *)
(* "<family>.<method> err" when it rejected, and the attempt's outcome is    *)
(* passed on unchanged; the circuit wrapper adds its own warn entries       *)
(* (circuit-open, circuit-trip), one for each rejection it produces or sees. *)
C33_OneEntryPerAttempt ==
  \A i \in 1..Len(call) :
    LET L == LogEntries(i) IN
    /\ Len(L) = SettledAttempts(i)
    /\ \A k \in 1..Len(L) :
         L[k] \in {<<"debug", LogLabel(cfg) \o " ok">>,
                   <<"error", LogLabel(cfg) \o " err">>}
    /\ cfg.retry =>
         /\ Len(call[i].attemptRes) = Len(L)
         /\ \A k \in 1..Len(L) :
              (L[k][1] = "debug") = (call[i].attemptRes[k].kind = "resolved")
    /\ (~cfg.retry /\ cfg.timeoutMs = 0 /\ Len(L) = 1) =>
         (L[1][1] = "debug") = (call[i].caller.kind = "resolved")
    /\ Len(call[i].logs) - Len(L) =
         IF cfg.circuit THEN CountIn([k \in 1..Len(L) |-> L[k][1]], "error") ELSE 0

\* a tempDir acquire failed once and succeeded on the retry: one err entry
\* and one ok entry, and a circuit-trip warning between them
C33_Witness ==
  /\ cfg.lease /\ cfg.circuit /\ cfg.retry
  /\ \E i \in 1..Len(call) :
       /\ call[i].caller.kind = "resolved"
       /\ call[i].logs = <<<<"warn", "lease.tempDir.acquire circuit-trip">>,
                            <<"error", "lease.tempDir.acquire err">>,
                            <<"debug", "lease.tempDir.acquire ok">>>>

(* C34: the memo store and the span list of an execution are its own: no    *)
(* two contexts share a store, memo never returns a value memoized by       *)
(* another execution, and a store holds only what its own execution wrote.  *)
C34_StoresPerExecution ==
  /\ \A c, d \in 1..Len(hc.ctxs) :
       c # d => /\ hc.ctxs[c].memo = 0 \/ hc.ctxs[c].memo # hc.ctxs[d].memo
                /\ hc.ctxs[c].spans = 0 \/ hc.ctxs[c].spans # hc.ctxs[d].spans
  /\ \A n \in 1..Len(hc.calls) :
       hc.calls[n].state = "returned" =>
         hc.calls[hc.calls[n].val].ctx = hc.calls[n].ctx
  /\ \A c \in 1..Len(hc.ctxs) :
       /\ hc.ctxs[c].memo # 0 =>
            \A k \in MemoKeys :
              LET v == hc.memos[hc.ctxs[c].memo][k]
              IN v = 0 \/ hc.calls[v].ctx = c
       /\ hc.ctxs[c].spans # 0 =>
            \A k \in 1..Len(hc.spans[hc.ctxs[c].spans]) :
              hc.spans[hc.ctxs[c].spans][k] = c

(* C35: for an attempt of a lease opener woven with timeout.acquireMs whose *)
(* acquire resolves with a Releasable, exactly one of two things happens:   *)
(* the attempt delivers the Releasable and the wrapper never releases it,   *)
(* or the attempt is rejected with acquire-timeout (and the wrapper         *)
(* releases the late resource); a rejected attempt never delivers.          *)
C35_DeliverOrTimeout ==
  \A j \in 1..Len(inv) :
    LET delivered == inv[j].race = inv[j].res /\ ~inv[j].timedOut
                       /\ inv[j].released = 0
        rejected == inv[j].race = Rejected("acquire-timeout") /\ inv[j].timedOut
    IN /\ (Woven("acquireTimeout") /\ inv[j].res.kind = "resolved" /\ inv[j].releasable)
            => (delivered \/ rejected) /\ ~(delivered /\ rejected)
       /\ inv[j].released > 0 => rejected
       /\ inv[j].timedOut => rejected
       /\ (~Woven("retry") /\ call[inv[j].call].caller.kind = "resolved")
            => inv[j].race = call[inv[j].call].caller /\ inv[j].released = 0

\* of two attempts of one retried acquire the first timed out and its late
\* Releasable was released; the second delivered its Releasable, unreleased
C35_Witness ==
  \E j1, j2 \in 1..Len(inv) :
    /\ j1 < j2 /\ inv[j1].call = inv[j2].call
    /\ inv[j1].timedOut /\ inv[j1].res.kind = "resolved" /\ inv[j1].releasable
    /\ inv[j1].released = 1
    /\ ~inv[j2].timedOut /\ inv[j2].res.kind = "resolved" /\ inv[j2].releasable
    /\ inv[j2].timer = "cleared" /\ inv[j2].released = 0
    /\ call[inv[j2].call].caller = inv[j2].res

\* C36 as stated: no invocation of the underlying method is made for a call
\* whose caller has been rejected with effect-timeout
C36_AsStated ==
  \A j \in 1..Len(inv) :
    inv[j].late => call[inv[j].call].caller # Rejected(TimeoutLabel)

(* C36: a woven port call rejected with effect-timeout is not cancelled:    *)
(* the retry loop goes on and may invoke the underlying method again,       *)
(* within its budget of times + 1 invocations; such late invocations are    *)
(* made only by the retry loop of a timed-out call, and their outcome does  *)
(* not reach the caller, who keeps effect-timeout.                          *)
C36_LateAttemptsOrphaned ==
  \A j \in 1..Len(inv) :
    inv[j].late =>
      LET i == inv[j].call IN
      /\ Woven("timeout") /\ Woven("retry")
      /\ call[i].timer = "fired"
      /\ call[i].caller = Rejected(TimeoutLabel)
      /\ call[i].settledAt <= inv[j].at
      /\ Len(InvsOf(i)) <= cfg.times + 1

\* the caller has effect-timeout, the retry loop then made another attempt
\* and that attempt succeeded
C36_Witness ==
  \E j \in 1..Len(inv) :
    /\ inv[j].late
    /\ inv[j].res.kind = "resolved"
    /\ call[inv[j].call].caller = Rejected(TimeoutLabel)
    /\ call[inv[j].call].retryRes = inv[j].res

(* C37: of two executions of one step with an idempotency key, on one KV    *)
(* store, that both resolved, at most one invoked run, and both returned    *)
(* the same value.                                                          *)
C37_RunAtMostOnce ==
  \A e1, e2 \in 1..Len(ex) :
    ( /\ e1 < e2
      /\ ex[e1].step = ex[e2].step /\ IdemActive(ex[e1])
      /\ ShareStore(e1, e2)
      /\ ex[e1].pc = "done" /\ ex[e2].pc = "done"
      /\ ex[e1].outcome.kind = "resolved" /\ ex[e2].outcome.kind = "resolved" )
    => /\ ex[e1].runs + ex[e2].runs <= 1
       /\ ex[e1].outcome = ex[e2].outcome

(* C38: when a before hook of a matched macro throws or rejects, the        *)
(* execution rejects with that error at once: no later before hook, no run, *)
(* no after hook and no onError hook is invoked.                            *)
C38_BeforeFailureFinal ==
  \A e \in 1..Len(ex) : \A k \in 1..Len(ex[e].hooks) :
    (ex[e].hooks[k][1] = "before" /\ ex[e].hooks[k][3] = "throw") =>
      /\ k = Len(ex[e].hooks)
      /\ ex[e].pc = "done"
      /\ ex[e].outcome = Rejected(ex[e].hooks[k][4])
      /\ ex[e].runs = 0
      /\ \A h \in 1..Len(ex[e].hooks) : ex[e].hooks[h][1] = "before"
      /\ \A p \in 1..Len(ex[e].phases) :
           ex[e].phases[p] \notin {"run", "after", "onError"}

\* both macros are matched and have before, after and onError hooks; the
\* first before hook threw and nothing else was invoked
C38_Witness ==
  \E e \in 1..Len(ex) :
    /\ \A m \in 1..Len(eng.macros) :
         eng.macros[m].before /\ eng.macros[m].after /\ eng.macros[m].onError
    /\ Len(ex[e].matched) = NMacros
    /\ ex[e].hooks = <<<<"before", 1, "start", "none">>, <<"before", 1, "throw", "eB">>>>
    /\ ex[e].outcome = Rejected("eB")

\* the entries of the hook log of execution x that belong to the given hook
HookLog(x, hook) == SelectSeq(x.hooks, LAMBDA h : h[1] = hook)

\* the positions of `matched` whose macro has the given hook
WithHook(x, hook) == {j \in 1..Len(x.matched) : eng.macros[x.matched[j]][hook]}

\* the macros whose hook has been invoked so far, in the order of invocation
Invoked(x, hook) ==
  LET L == SelectSeq(x.hooks, LAMBDA h : h[1] = hook /\ h[3] = "start")
  IN [k \in 1..Len(L) |-> L[k][2]]

\* the first n macros of `matched` that have the given hook
RECURSIVE FirstWithHook(_, _, _, _)
FirstWithHook(x, hook, j, n) ==
  IF n = 0 \/ j > Len(x.matched) THEN <<>>
  ELSE IF eng.macros[x.matched[j]][hook]
       THEN <<x.matched[j]>> \o FirstWithHook(x, hook, j + 1, n - 1)
       ELSE FirstWithHook(x, hook, j + 1, n)

\* the hooks of one kind are invoked in the order of the macro list, each
\* after the one before it has settled
InOrder(x, hook) ==
  /\ LET I == Invoked(x, hook) IN I = FirstWithHook(x, hook, 1, Len(I))
  /\ \A k \in 1..Len(x.hooks) :
       x.hooks[k][3] = "start" =>
         IF k = Len(x.hooks) THEN x.pc = x.hooks[k][1]
         ELSE /\ x.hooks[k + 1][1] = x.hooks[k][1]
              /\ x.hooks[k + 1][2] = x.hooks[k][2]
              /\ x.hooks[k + 1][3] # "start"

PhaseRank(p) ==
  CASE p = "validate" -> 1 [] p = "resolve" -> 2 [] p = "weave" -> 3
    [] p = "before" -> 4 [] p = "run" -> 5 [] p = "after" -> 6
    [] p = "onError" -> 7

(* C4: the phases of an execution occur in the order validate, resolve,     *)
(* weave, before, run, then after or onError: none is skipped up to run,    *)
(* none is entered twice and none is entered after a later one; weave       *)
(* begins only when every resolve has resolved, run only when no before     *)
(* hook is in flight, after and onError only when run has settled, and a    *)
(* hook is invoked only when the hook before it has settled.                *)
C4_PhaseOrder ==
  \A e \in 1..Len(ex) :
    LET x == ex[e]
    IN /\ \A k \in 1..Len(x.phases) :
            /\ k <= 5 => PhaseRank(x.phases[k]) = k
            /\ k > 1 => PhaseRank(x.phases[k - 1]) < PhaseRank(x.phases[k])
       /\ x.runs <= 1
       /\ (x.pc # "done") => x.phases[Len(x.phases)] = x.pc
       /\ Len(x.phases) >= 3 =>
            \A j \in 1..Len(x.matched) : x.resolves[x.matched[j]].kind = "resolved"
       /\ x.runs = 1 <=> Len(x.phases) >= 5
       /\ Len(x.phases) >= 6 <=> x.runRes # Pending
       /\ \A k \in 1..Len(x.hooks) :
            /\ \E q \in 1..Len(x.phases) : x.phases[q] = x.hooks[k][1]
            /\ k > 1 => PhaseRank(x.hooks[k - 1][1]) <= PhaseRank(x.hooks[k][1])
       /\ InOrder(x, "before") /\ InOrder(x, "after") /\ InOrder(x, "onError")

C4_Witness ==
  \E e \in 1..Len(ex) :
    /\ ex[e].pc = "done"
    /\ ex[e].phases = <<"validate", "resolve", "weave", "before", "run", "after">>
    /\ Invoked(ex[e], "before") = <<1, 2>>
    /\ Invoked(ex[e], "after") = <<1, 2>>
    /\ ex[e].outcome = Resolved("v2")

\* the values given to setMacroResult during the given phase, in order
SetValues(x, phase) ==
  LET L == SelectSeq(x.setIn, LAMBDA p : p[1] = phase)
  IN [k \in 1..Len(L) |-> L[k][2]]

\* some hook of the given kind threw
Threw(x, hook) == \E k \in 1..Len(x.hooks) : x.hooks[k][1] = hook /\ x.hooks[k][3] = "throw"

\* the statement of C5 as the specification words it: once a before hook
\* has set a result, the execution returns a value that was set, whatever
\* the before hooks after it do
C5_AsStated ==
  \A e \in 1..Len(ex) :
    (ex[e].pc = "done" /\ SetValues(ex[e], "before") # <<>>)
    => /\ ex[e].outcome.kind = "resolved"
       /\ \E k \in 1..Len(SetValues(ex[e], "before")) :
            ex[e].outcome.val = SetValues(ex[e], "before")[k]
       /\ ex[e].runs = 0
       /\ HookLog(ex[e], "after") = <<>> /\ HookLog(ex[e], "onError") = <<>>

(* C5: when a before hook of a matched macro sets a result, step.run is not *)
(* invoked and no after or onError hook is invoked; the before hooks of the *)
(* macros after it are still invoked, and the execution returns the value   *)
(* set last unless one of them throws, in which case it rejects with what   *)
(* was thrown.                                                              *)
C5_BeforeShortCircuit ==
  \A e \in 1..Len(ex) :
    SetValues(ex[e], "before") # <<>>
    => /\ ex[e].runs = 0
       /\ HookLog(ex[e], "after") = <<>> /\ HookLog(ex[e], "onError") = <<>>
       /\ ex[e].pc \in {"before", "done"}
       /\ ex[e].pc = "done" =>
            IF Threw(ex[e], "before")
            THEN ex[e].outcome = Rejected(ex[e].hooks[Len(ex[e].hooks)][4])
            ELSE /\ ex[e].outcome = Resolved(
                      SetValues(ex[e], "before")[Len(SetValues(ex[e], "before"))])
                 /\ Len(Invoked(ex[e], "before")) = Cardinality(WithHook(ex[e], "before"))

C5_Witness ==
  \E e \in 1..Len(ex) :
    /\ ex[e].pc = "done"
    /\ SetValues(ex[e], "before") = <<"v1">>
    /\ ex[e].hooks = <<<<"before", 1, "start", "none">>, <<"before", 1, "set", "v1">>,
                        <<"before", 2, "start", "none">>,
                        <<"before", 2, "return", "undefined">>>>
    /\ ex[e].outcome = Resolved("v1")
    /\ ex[e].runs = 0

\* execution x's run threw, its onError hooks have been consulted
RunThrew(x) == x.runRes.kind = "rejected"

\* the onError hooks that recovered: returned something other than undefined
Recoveries(x) ==
  {k \in 1..Len(x.hooks) :
     x.hooks[k][1] = "onError" /\ x.hooks[k][3] = "return" /\ x.hooks[k][4] # "undefined"}

\* the onError hooks are consulted in the order of the macro list, and the
\* first that recovers ends the execution with the value it returned
RecoveryOrder(x) ==
  /\ InOrder(x, "onError")
  /\ \A k \in Recoveries(x) :
       k = Len(x.hooks) /\ x.pc = "done" /\ x.outcome = Resolved(x.hooks[k][4])

\* the statement of C6 as the specification words it: when no onError hook
\* recovers, the execution rejects with the error run threw
C6_AsStated ==
  \A e \in 1..Len(ex) :
    RunThrew(ex[e])
    => /\ RecoveryOrder(ex[e])
       /\ (ex[e].pc = "done" /\ Recoveries(ex[e]) = {})
            => ex[e].outcome = Rejected(ex[e].runRes.val)

(* C6: when step.run throws e, the onError hooks of the matched macros are  *)
(* invoked in the order of the macro list until one returns something other *)
(* than undefined, which the execution returns, and no onError hook is      *)
(* invoked after it; when none does, the execution rejects with what an     *)
(* onError hook threw if one threw, else returns the macro result if one    *)
(* has been set, else rejects with e itself.                                *)
C6_OnErrorRecovery ==
  \A e \in 1..Len(ex) :
    RunThrew(ex[e])
    => /\ RecoveryOrder(ex[e])
       /\ (ex[e].pc = "done" /\ Recoveries(ex[e]) = {})
            => IF Threw(ex[e], "onError")
               THEN ex[e].outcome = Rejected(ex[e].hooks[Len(ex[e].hooks)][4])
               ELSE /\ Len(Invoked(ex[e], "onError")) = Cardinality(WithHook(ex[e], "onError"))
                    /\ IF ex[e].setIn # <<>>
                       THEN ex[e].outcome = Resolved(ex[e].setIn[Len(ex[e].setIn)][2])
                       ELSE ex[e].outcome = Rejected(ex[e].runRes.val)

C6_Witness ==
  \E e \in 1..Len(ex) :
    /\ ex[e].pc = "done"
    /\ ex[e].runRes = Rejected("e2")
    /\ ex[e].setIn = <<>>
    /\ HookLog(ex[e], "onError") =
         <<<<"onError", 1, "start", "none">>, <<"onError", 1, "return", "undefined">>,
           <<"onError", 2, "start", "none">>, <<"onError", 2, "return", "undefined">>>>
    /\ ex[e].outcome = Rejected("e2")

(* C22: after hooks are invoked only when step.run resolved, onError hooks  *)
(* only when step.run itself threw or rejected, and no execution invokes    *)
(* hooks of both kinds.                                                     *)
C22_ExclusivePaths ==
  \A e \in 1..Len(ex) :
    /\ Invoked(ex[e], "after") # <<>> => ex[e].runRes.kind = "resolved"
    /\ Invoked(ex[e], "onError") # <<>> => ex[e].runRes.kind = "rejected"
    /\ Invoked(ex[e], "after") = <<>> \/ Invoked(ex[e], "onError") = <<>>

\* the positions in the hook log at which a before hook set a result
BeforeSets(x) ==
  {k \in 1..Len(x.hooks) : x.hooks[k][1] = "before" /\ x.hooks[k][3] = "set"}

\* the statement of C23 as the specification words it: no before hook is
\* invoked once a before hook has set a result
C23_AsStated ==
  \A e \in 1..Len(ex) : \A k \in BeforeSets(ex[e]) :
    \A q \in (k + 1)..Len(ex[e].hooks) : ex[e].hooks[q][3] # "start"

(* C23: short-circuiting takes effect when the before loop has ended: after *)
(* a before hook has set a result, the before hooks of the later matched    *)
(* macros are still invoked in registration order, and only when the last   *)
(* of them has returned does the execution return, without invoking run.    *)
C23_ShortCircuitAfterLoop ==
  \A e \in 1..Len(ex) :
    LET x == ex[e] IN
    BeforeSets(x) # {} =>
      /\ x.pc \in {"before", "done"} /\ x.runs = 0
      /\ InOrder(x, "before")
      /\ (x.pc = "done" /\ ~Threw(x, "before")) =>
           Invoked(x, "before") =
             FirstWithHook(x, "before", 1, Cardinality(WithHook(x, "before")))

\* the first macro's before hook set v1, the second macro's before hook was
\* invoked after that and set v2, which the execution returned
C23_Witness ==
  \E e \in 1..Len(ex) :
    /\ ex[e].pc = "done"
    /\ ex[e].hooks = <<<<"before", 1, "start", "none">>, <<"before", 1, "set", "v1">>,
                        <<"before", 2, "start", "none">>, <<"before", 2, "set", "v2">>>>
    /\ ex[e].outcome = Resolved("v2")
    /\ ex[e].runs = 0

\* the after hooks of execution x that have settled without throwing: what
\* each was given and what it returned (a hook that only sets the macro
\* result returns what it was given)
AfterCalls(x) ==
  LET L == HookLog(x, "after")
      S == {k \in 1..Len(L) : L[k][3] \in {"return", "set"}}
      Ks == SelectSeq([k \in 1..Len(L) |-> k], LAMBDA k : k \in S)
  IN [n \in 1..Len(Ks) |->
        [arg |-> L[Ks[n] - 1][4],
         ret |-> IF L[Ks[n]][3] = "return" THEN L[Ks[n]][4] ELSE L[Ks[n] - 1][4]]]

\* the value at the end of the chain of after hooks
Chained(x) ==
  IF AfterCalls(x) = <<>> THEN x.runRes.val
  ELSE AfterCalls(x)[Len(AfterCalls(x))].ret

\* each after hook is given what the hook before it returned, the first
\* what run resolved with
ChainedArgs(x) ==
  /\ InOrder(x, "after")
  /\ \A k \in 1..Len(HookLog(x, "after")) :
       HookLog(x, "after")[k][3] = "start" =>
         HookLog(x, "after")[k][4] =
           (IF k = 1 THEN x.runRes.val
            ELSE AfterCalls(x)[(k - 1) \div 2].ret)

\* the statement of C24 as the specification words it: the execution
\* returns the last hook's value unless a hook set a result during after
C24_AsStated ==
  \A e \in 1..Len(ex) :
    LET x == ex[e] IN
    (x.runRes.kind = "resolved" /\ x.pc = "done") =>
      /\ ChainedArgs(x)
      /\ x.outcome =
           (IF SetValues(x, "after") # <<>>
            THEN Resolved(SetValues(x, "after")[Len(SetValues(x, "after"))])
            ELSE Resolved(Chained(x)))

(* C24: after step.run resolves with v0 the after hooks of the matched      *)
(* macros are applied in registration order, each given the value the hook  *)
(* before it returned (the first v0); when none of them throws, the         *)
(* execution returns the macro result if one has been set, by step.run or   *)
(* by a hook during after, and else the last hook's return value.           *)
C24_AfterChain ==
  \A e \in 1..Len(ex) :
    LET x == ex[e] IN
    x.runRes.kind = "resolved" =>
      /\ ChainedArgs(x)
      /\ (x.pc = "done" /\ ~Threw(x, "after")) =>
           x.outcome =
             (IF x.setIn # <<>> THEN Resolved(x.setIn[Len(x.setIn)][2])
              ELSE Resolved(Chained(x)))

\* run resolved with v1, the first after hook was given v1 and returned v2,
\* the second was given v2 and returned v1, which the execution returned
C24_Witness ==
  \E e \in 1..Len(ex) :
    /\ ex[e].pc = "done"
    /\ ex[e].runRes = Resolved("v1")
    /\ ex[e].hooks = <<<<"after", 1, "start", "v1">>, <<"after", 1, "return", "v2">>,
                        <<"after", 2, "start", "v2">>, <<"after", 2, "return", "v1">>>>
    /\ ex[e].setIn = <<>>
    /\ ex[e].outcome = Resolved("v1")

(* C25: hooks are invoked only on macros whose match(meta) is true and     *)
(* that define the hook; the before hooks are invoked one at a time in the  *)
(* order of the macro list, each invoked only when the one before it has    *)
(* settled, and so are the after hooks and the onError hooks.               *)
C25_MatchedHooksInSequence ==
  \A e \in 1..Len(ex) :
    LET x == ex[e] IN
    /\ \A k \in 1..Len(x.hooks) :
         /\ Matches(x.step, x.hooks[k][2])
         /\ eng.macros[x.hooks[k][2]][x.hooks[k][1]]
    /\ \A hook \in {"before", "after", "onError"} :
         /\ InOrder(x, hook)
         /\ LET I == Invoked(x, hook)
            IN \A a \in 1..(Len(I) - 1) : I[a] < I[a + 1]
    /\ Cardinality({k \in 1..Len(x.hooks) : x.hooks[k][3] = "start"})
         - Cardinality({k \in 1..Len(x.hooks) : x.hooks[k][3] # "start"})
         \in {0, 1}

\* an engine whose macros all have hooks, a step that declares only the
\* first: its hooks were invoked, none of the second macro
C25_Witness ==
  \E e \in 1..Len(ex) :
    /\ \A m \in 1..Len(eng.macros) : eng.macros[m].before /\ eng.macros[m].onError
    /\ ex[e].pc = "done"
    /\ ex[e].step.meta = {1}
    /\ Invoked(ex[e], "before") = <<1>>
    /\ Invoked(ex[e], "onError") = <<1>>
    /\ ex[e].outcome.kind = "rejected"

\* step declares a capability key that no macro has, or has no run function
Unrunnable(step) == UnknownKey \in step.meta \/ step.defect = "noRun"

(* C26: with validation enabled, the execution of a step that declares a    *)
(* capability key no registered macro has, or whose run is not a function,  *)
(* rejects in the validate phase: no macro is matched or resolved, no hook  *)
(* and no step.run is invoked.                                              *)
C26_ValidationFailsFast ==
  \A e \in 1..Len(ex) :
    LET x == ex[e] IN
    (eng.validate /\ Unrunnable(x.step)) =>
      /\ x.pc = "done" /\ x.outcome.kind = "rejected"
      /\ x.phases = <<"validate">>
      /\ x.matched = <<>> /\ x.settled = <<>>
      /\ \A m \in 1..Len(eng.macros) : x.resolves[m] = Pending
      /\ x.hooks = <<>> /\ x.runs = 0

\* the step declares the unknown key next to the keys of all macros, which
\* have hooks: the execution was rejected by the validation
C26_Witness ==
  \E e \in 1..Len(ex) :
    /\ eng.validate
    /\ \A m \in 1..Len(eng.macros) : eng.macros[m].before
    /\ ex[e].step.meta = 0..NMacros /\ ex[e].step.defect = "none"
    /\ ex[e].outcome = Rejected("validation")
    /\ ex[e].hooks = <<>>

(* C27: with validation enabled, the execution of a step whose meta        *)
(* carries an invalid policy configuration (retry.times < 0, retry.delayMs  *)
(* < 0 or timeout.ms < 0) is rejected as a validation error before any      *)
(* macro resolve, port call or step.run.                                    *)
C27_InvalidPolicyRejected ==
  \A e \in 1..Len(ex) :
    LET x == ex[e] IN
    (eng.validate /\ "invalid-policy" \in ValidateMeta(x.step)) =>
      /\ x.pc = "done" /\ x.outcome = Rejected("validation")
      /\ x.phases = <<"validate">>
      /\ x.settled = <<>> /\ x.runs = 0

\* the matched macros of execution x whose resolve rejected
RejectedResolves(x) ==
  {j \in 1..Len(x.matched) : x.resolves[x.matched[j]].kind = "rejected"}

(* C7: when the resolve of a matched macro rejects, the execution rejects   *)
(* with that error (with the error of one of them when several reject),     *)
(* step.run is not invoked, and no before, after or onError hook is         *)
(* invoked.                                                                 *)
C7_ResolveRejection ==
  \A e \in 1..Len(ex) :
    RejectedResolves(ex[e]) # {}
    => /\ ex[e].pc = "done"
       /\ ex[e].outcome.kind = "rejected"
       /\ \E j \in RejectedResolves(ex[e]) :
            ex[e].outcome = ex[e].resolves[ex[e].matched[j]]
       /\ ex[e].runs = 0
       /\ ex[e].hooks = <<>>

C7_Witness ==
  \E e \in 1..Len(ex) :
    /\ ex[e].matched = <<1, 2>>
    /\ eng.macros[1].before /\ eng.macros[2].onError
    /\ ex[e].resolves[1] = Resolved("caps")
    /\ ex[e].resolves[2] = Rejected("e2")
    /\ ex[e].outcome = Rejected("e2")

\* the last macro of the list, among those matched by x, whose partial has
\* key k (at top level, or under lease); `none` if there is none
LastProvider(x, k, part, none) ==
  LET P == {j \in 1..Len(x.matched) :
              LET p == PartialOf(x.resolves[x.matched[j]].val)
              IN ~p.falsy /\ k \in p[part]}
  IN IF P = {} THEN none ELSE x.matched[CHOOSE j \in P : \A i \in P : i <= j]

(* C12: whatever the order in which the resolve promises settled, the       *)
(* capability set handed to weave has, for every top-level key and for      *)
(* every lease key, the value of the last macro in macro-list order that    *)
(* contributed the key; bracket stays the executor's when no macro          *)
(* contributes it, and lease keys of different macros coexist.              *)
C12_MergeDeterministic ==
  \A e \in 1..Len(ex) :
    Len(ex[e].phases) >= 3 =>
      /\ \A k \in CapKeys :
           ex[e].caps.top[k] =
             LastProvider(ex[e], k, "top", IF k = "bracket" THEN Core ELSE Absent)
      /\ \A k \in LeaseKeys :
           ex[e].caps.lease[k] = LastProvider(ex[e], k, "lease", Absent)

C12_Witness ==
  \E e \in 1..Len(ex) :
    /\ ex[e].matched = <<1, 2>>
    /\ ex[e].settled = <<2, 1>>
    /\ ex[e].resolves[1] = Resolved("kv+lease.db+lock")
    /\ ex[e].resolves[2] = Resolved("kv+lease.db")
    /\ ex[e].caps.top["kv"] = 2
    /\ ex[e].caps.lease["db"] = 2
    /\ ex[e].caps.lease["lock"] = 1

====
